---- MODULE Spec2Model ----
(***************************************************************************)
(* A model of the rollup node core of SpecularL2/magi:                     *)
(*   - the engine driver (src/src/driver/engine_driver.rs): three head     *)
(*     pointers behind a tokio RwLock, the skip-vs-process decision, the   *)
(*     engine calls of the Process action, unsafe payload ingestion,       *)
(*     reorg and finalization;                                             *)
(*   - the Specular Batches stage (src/src/specular/stages/batches.rs);    *)
(*   - the Attributes stage (src/src/derive/stages/attributes.rs).         *)
(* The execution engine and the L2 provider are collaborators: the engine  *)
(* answers every call with a nondeterministic status, the provider serves  *)
(* the engine's canonical chain.  BlockInfo.parent_hash is carried by the  *)
(* code but never read by the modelled operations and is left out.         *)
(***************************************************************************)
EXTENDS Integers, Sequences, FiniteSets, TLC

VARIABLES
    unsafe_head, unsafe_epoch,        \* EngineDriver fields
    safe_head, safe_epoch,
    finalized_head, finalized_epoch,
    lock,                             \* the RwLock around the EngineDriver
    chain,                            \* canonical L2 chain served by the provider
    task,                             \* per caller: position and locals
    pre,                              \* history: the heads when the observed call began
    det,                              \* inputs and result of determine_action
    sequencer,                        \* inputs and result of the sequencing policy
    st,                               \* derive::state::State shared by the stages
    channel,                          \* mpsc channel of BatcherTransactionMessage
    txs,                              \* SpecularBatcherTransactions.txs
    batches,                          \* SpecularBatches.batches
    pull,                             \* history: the last pull of the Batches stage
    att,                              \* Attributes.sequence_number / epoch_hash
    hist                              \* history: the last attributes emitted

vars == <<unsafe_head, unsafe_epoch, safe_head, safe_epoch,
          finalized_head, finalized_epoch, lock, chain, task, pre, det,
          sequencer, st, channel, txs, batches, pull, att, hist>>

\* the derivation pipeline's variables
pipeline == <<st, channel, txs, batches, pull, att, hist>>

heads == <<unsafe_head, unsafe_epoch, safe_head, safe_epoch,
           finalized_head, finalized_epoch>>

\* the engine driver's variables
driver == <<heads, lock, chain, task, pre, det, sequencer>>

----------------------------------------------------------------------------
(* Bounds and configuration *)

MaxBlock == 1          \* highest L2 block number of the model
Blocktime == 2         \* config.chain.blocktime
GenesisTs == 10        \* timestamp of L2 block 0

Tasks == {"t1", "t2"}
NoTask == "none"
NoBlock == [none |-> TRUE]
Variants == {1, 2}     \* block contents an engine can be asked to build
EpochNums == {1, 2}

TsOf(n) == GenesisTs + n * Blocktime

\* keccak-256 of a raw transaction (collision free on the model's domain)
Keccak(tx) == 1000 + tx

\* block hash of the block with number n, timestamp ts and content v
HashOf(n, v) == 100 + 10 * n + v

EpochOf(e) == [number |-> e, hash |-> 500 + e, timestamp |-> GenesisTs + 4 * (e - 1)]

Epochs == {EpochOf(e) : e \in EpochNums}

\* raw transactions carried by content v
TxsOf(v) == <<v>>

MapSeq(s, F(_)) == [i \in 1..Len(s) |-> F(s[i])]

\* the block the provider returns for (n, v): Block<Transaction>
BlockOf(n, v) ==
    [number |-> n, hash |-> HashOf(n, v), timestamp |-> TsOf(n),
     transactions |-> MapSeq(TxsOf(v), Keccak),
     mix_hash |-> 7, author |-> 8, gas_limit |-> 9]

\* the payload the engine builds or the network gossips: ExecutionPayload
PayloadOf(n, v) ==
    [block_number |-> n, block_hash |-> HashOf(n, v), timestamp |-> TsOf(n),
     variant |-> v]

\* BlockInfo::try_from(block)
BlockInfoOfBlock(b) == [number |-> b.number, hash |-> b.hash, timestamp |-> b.timestamp]

\* BlockInfo from an ExecutionPayload
BlockInfoOfPayload(p) ==
    [number |-> p.block_number, hash |-> p.block_hash, timestamp |-> p.timestamp]

GenesisInfo == BlockInfoOfBlock(BlockOf(0, 1))

BlockInfos ==
    {GenesisInfo} \cup {BlockInfoOfBlock(BlockOf(n, v)) : n \in 1..MaxBlock, v \in Variants}

\* payloads the network may gossip: any block of the model, the genesis included
Payloads ==
    {PayloadOf(0, 1)} \cup {PayloadOf(n, v) : n \in 1..MaxBlock, v \in Variants}

\* PayloadAttributes asking for content v at timestamp ts with epoch e
AttrsOf(ts, v, e) ==
    [timestamp |-> ts, prev_randao |-> 7, suggested_fee_recipient |-> 8,
     transactions |-> TxsOf(v), gas_limit |-> 9, epoch |-> e, variant |-> v]

AttrsSet == {AttrsOf(TsOf(n), v, e) : n \in 1..MaxBlock, v \in Variants, e \in Epochs}

Targets == {"Safe", "Unsafe"}

----------------------------------------------------------------------------
(* Pure functions of the engine driver *)

\* Rust's i64 division truncates toward zero
TruncDiv(a, b) == IF a >= 0 THEN a \div b ELSE -((-a) \div b)

\* EngineDriver::block_at: the provider's block at the number computed from
\* the finalized head; a failed lookup (.ok()?) and a missing block are None
block_at(timestamp, fin, ch, lookup_ok) ==
    LET time_diff == timestamp - fin.timestamp
        blocks    == TruncDiv(time_diff, Blocktime)
        block_num == fin.number + blocks
    IN  IF lookup_ok /\ block_num \in DOMAIN ch /\ ch[block_num] # 0
        THEN BlockOf(block_num, ch[block_num])
        ELSE NoBlock

\* mutant: the gas limit is not compared
should_skip_noGasLimit(block, attributes) ==
    LET attributes_hashes == MapSeq(attributes.transactions, Keccak)
        block_hashes      == block.transactions
    IN  /\ attributes_hashes = block_hashes
        /\ attributes.timestamp = block.timestamp
        /\ attributes.prev_randao = block.mix_hash
        /\ attributes.suggested_fee_recipient = block.author

\* should_skip(block, attributes)
should_skip(block, attributes) ==
    LET attributes_hashes == MapSeq(attributes.transactions, Keccak)
        block_hashes      == block.transactions
    IN  /\ attributes_hashes = block_hashes
        /\ attributes.timestamp = block.timestamp
        /\ attributes.prev_randao = block.mix_hash
        /\ attributes.suggested_fee_recipient = block.author
        /\ attributes.gas_limit = block.gas_limit

Skip(info) == [kind |-> "Skip", info |-> info, reorg |-> FALSE]
Process(reorg) == [kind |-> "Process", info |-> NoBlock, reorg |-> reorg]
NoAction == [kind |-> "None", info |-> NoBlock, reorg |-> FALSE]

\* EngineDriver::determine_action, given the result of block_at
determine_action(block, attributes) ==
    IF block # NoBlock /\ should_skip(block, attributes)
    THEN Skip(BlockInfoOfBlock(block))
    ELSE IF block # NoBlock
         THEN Process(TRUE)
         ELSE Process(FALSE)

\* EngineDriver::create_forkchoice_state
create_forkchoice_state(uh, sh, fh) ==
    [head_block_hash |-> uh.hash, safe_block_hash |-> sh.hash,
     finalized_block_hash |-> fh.hash]

\* EngineDriver::update_unsafe_head, on the record of the six head fields
update_unsafe_head(d, head, epoch) ==
    [d EXCEPT !.unsafe_head = head, !.unsafe_epoch = epoch]

\* mutant: the unsafe head is reorged to the safe head as it was before the update
update_safe_head_stale(d, head, epoch, reorg_unsafe) ==
    LET d1 == IF d.safe_head # head
              THEN [d EXCEPT !.safe_head = head, !.safe_epoch = epoch]
              ELSE d
    IN  IF reorg_unsafe \/ d1.safe_head.number > d1.unsafe_head.number
        THEN update_unsafe_head(d1, d.safe_head, d.safe_epoch)
        ELSE d1

\* mutant: the unsafe head is reorged only on request, never because it fell behind
update_safe_head_noCatchUp(d, head, epoch, reorg_unsafe) ==
    LET d1 == IF d.safe_head # head
              THEN [d EXCEPT !.safe_head = head, !.safe_epoch = epoch]
              ELSE d
    IN  IF reorg_unsafe
        THEN update_unsafe_head(d1, d1.safe_head, d1.safe_epoch)
        ELSE d1

\* EngineDriver::update_safe_head
update_safe_head(d, head, epoch, reorg_unsafe) ==
    LET d1 == IF d.safe_head # head
              THEN [d EXCEPT !.safe_head = head, !.safe_epoch = epoch]
              ELSE d
    IN  IF reorg_unsafe \/ d1.safe_head.number > d1.unsafe_head.number
        THEN update_unsafe_head(d1, d1.safe_head, d1.safe_epoch)
        ELSE d1

\* EngineDriver::update_finalized
update_finalized(d, head, epoch) ==
    [d EXCEPT !.finalized_head = head, !.finalized_epoch = epoch]

\* mutant: reorg resets the unsafe head only
reorg_unsafeOnly(d) ==
    [d EXCEPT !.unsafe_head = d.finalized_head, !.unsafe_epoch = d.finalized_epoch]

\* EngineDriver::reorg
reorg(d) ==
    [d EXCEPT !.unsafe_head = d.finalized_head, !.unsafe_epoch = d.finalized_epoch,
              !.safe_head = d.finalized_head, !.safe_epoch = d.finalized_epoch]

\* execute_action, Action::Skip(info): the head update for the target
execute_skip(d, target, info, epoch) ==
    IF target = "Safe"
    THEN update_safe_head(d, info, epoch, FALSE)
    ELSE update_unsafe_head(d, info, epoch)

\* mutant: the book-keeping for a Safe target moves the safe head only
execute_update_safeOnly(d, target, new_head, new_epoch) ==
    IF target = "Safe"
    THEN [d EXCEPT !.safe_head = new_head, !.safe_epoch = new_epoch]
    ELSE update_unsafe_head(d, new_head, new_epoch)

\* execute_action, Action::Process: the book-keeping head update for the target
execute_update(d, target, new_head, new_epoch) ==
    IF target = "Safe"
    THEN update_safe_head(d, new_head, new_epoch, TRUE)
    ELSE update_unsafe_head(d, new_head, new_epoch)

\* the six head fields as one record
Driver ==
    [unsafe_head |-> unsafe_head, unsafe_epoch |-> unsafe_epoch,
     safe_head |-> safe_head, safe_epoch |-> safe_epoch,
     finalized_head |-> finalized_head, finalized_epoch |-> finalized_epoch]

SetDriver(d) ==
    /\ unsafe_head' = d.unsafe_head
    /\ unsafe_epoch' = d.unsafe_epoch
    /\ safe_head' = d.safe_head
    /\ safe_epoch' = d.safe_epoch
    /\ finalized_head' = d.finalized_head
    /\ finalized_epoch' = d.finalized_epoch

----------------------------------------------------------------------------
(* The derivation pipeline: State, batcher transactions, batches *)

MaxL1 == 3             \* highest L1 block number of the model
SeqWindowSize == 1     \* config.chain.seq_window_size

L1Oracle == "l1_oracle"          \* config.chain.meta.l1_oracle
OtherAddress == "other"

NoInfo == [none |-> TRUE]
NoEpoch == [none |-> TRUE]
NoBatch == [none |-> TRUE]
NoPull == [origin |-> "none"]

Max(a, b) == IF a >= b THEN a ELSE b

\* the L1 block with number n
L1Info(n) ==
    [number |-> n, hash |-> EpochOf(n).hash, timestamp |-> EpochOf(n).timestamp,
     base_fee |-> 30 + n, state_root |-> 700 + n, mix_hash |-> 800 + n]

\* State::put_l1_block
put_l1_block(s, n) ==
    [s EXCEPT !.l1 = @ \cup {n}, !.current_epoch_num = Max(@, n)]

\* State::l1_info_by_number
l1_info_by_number(s, n) == IF n \in s.l1 THEN L1Info(n) ELSE NoInfo

\* State::l1_info_by_hash
l1_info_by_hash(s, h) ==
    IF \E n \in s.l1 : L1Info(n).hash = h
    THEN L1Info(CHOOSE n \in s.l1 : L1Info(n).hash = h)
    ELSE NoInfo

\* State::epoch_by_number
epoch_by_number(s, n) == IF n \in s.l1 THEN EpochOf(n) ELSE NoEpoch

\* State after construction: L1 block 1 known, the safe head at genesis
InitState ==
    [l1 |-> {1}, current_epoch_num |-> 1,
     safe_head |-> GenesisInfo, safe_epoch |-> EpochOf(1)]

\* raw L2 transactions: empty bytes, bytes that are not a transaction, and
\* a transaction with its recipient and decoded call data
EmptyTx == [kind |-> "empty"]
GarbageTx == [kind |-> "garbage"]

CallTx(to, selector_ok, en, ts, bf, eh, sr) ==
    [kind |-> "tx", to |-> to, selector_ok |-> selector_ok, epoch_num |-> en,
     timestamp |-> ts, base_fee |-> bf, epoch_hash |-> eh, state_root |-> sr]

PlainTx == CallTx(OtherAddress, FALSE, 0, 0, 0, 0, 0)

\* the setL1OracleValues call for L1 block e
OracleTx(e) ==
    CallTx(L1Oracle, TRUE, e, L1Info(e).timestamp, L1Info(e).base_fee,
           L1Info(e).hash, L1Info(e).state_root)

\* the call for L1 block e and every way of getting one part of it wrong
OracleTxVariants(e) ==
    {OracleTx(e),
     [OracleTx(e) EXCEPT !.to = OtherAddress],
     [OracleTx(e) EXCEPT !.to = "none"],
     [OracleTx(e) EXCEPT !.selector_ok = FALSE],
     [OracleTx(e) EXCEPT !.epoch_num = e + 1],
     [OracleTx(e) EXCEPT !.epoch_hash = 0],
     [OracleTx(e) EXCEPT !.timestamp = @ + 1],
     [OracleTx(e) EXCEPT !.base_fee = @ + 1],
     [OracleTx(e) EXCEPT !.state_root = @ + 1]}

\* SpecularBatchV0::has_invalid_transactions
has_invalid_transactions(batch) ==
    \E i \in 1..Len(batch.transactions) : batch.transactions[i].kind = "empty"

\* check_epoch_update_batch: TRUE for Ok(()), FALSE for an error
check_epoch_update_batch(batch, s) ==
    IF batch.transactions = <<>> THEN FALSE
    ELSE LET tx == batch.transactions[1]
         IN  IF tx.kind # "tx" THEN FALSE
             ELSE IF tx.to # L1Oracle THEN FALSE
             ELSE IF ~tx.selector_ok THEN FALSE
             ELSE IF tx.epoch_num # batch.epoch_num THEN FALSE
             ELSE IF tx.epoch_hash # batch.epoch_hash THEN FALSE
             ELSE LET target_epoch == l1_info_by_number(s, tx.epoch_num)
                  IN  IF target_epoch = NoInfo THEN FALSE
                      ELSE IF tx.epoch_hash # target_epoch.hash THEN FALSE
                      ELSE IF tx.timestamp # target_epoch.timestamp THEN FALSE
                      ELSE IF tx.base_fee # target_epoch.base_fee THEN FALSE
                      ELSE IF tx.state_root # target_epoch.state_root THEN FALSE
                      ELSE TRUE

\* mutant: a batch included exactly at the end of its window is dropped
batch_status_strictWindow(batch, s) ==
    LET head == s.safe_head
        next_timestamp == head.timestamp + Blocktime
    IN  IF batch.timestamp # next_timestamp THEN "Drop"
        ELSE IF batch.l2_block_number # head.number + 1 THEN "Drop"
        ELSE IF batch.epoch_num + SeqWindowSize <= batch.l1_inclusion_block THEN "Drop"
        ELSE IF batch.is_epoch_update /\ ~check_epoch_update_batch(batch, s) THEN "Drop"
        ELSE IF has_invalid_transactions(batch) THEN "Drop"
        ELSE "Accept"

\* mutant: a batch is accepted wherever it sits relative to the safe head
batch_status_anyPosition(batch, s) ==
    IF batch.epoch_num + SeqWindowSize < batch.l1_inclusion_block THEN "Drop"
    ELSE IF batch.is_epoch_update /\ ~check_epoch_update_batch(batch, s) THEN "Drop"
    ELSE IF has_invalid_transactions(batch) THEN "Drop"
    ELSE "Accept"

\* SpecularBatches::batch_status
batch_status(batch, s) ==
    LET head == s.safe_head
        next_timestamp == head.timestamp + Blocktime
    IN  IF batch.timestamp # next_timestamp THEN "Drop"
        ELSE IF batch.l2_block_number # head.number + 1 THEN "Drop"
        ELSE IF batch.epoch_num + SeqWindowSize < batch.l1_inclusion_block THEN "Drop"
        ELSE IF batch.is_epoch_update /\ ~check_epoch_update_batch(batch, s) THEN "Drop"
        ELSE IF has_invalid_transactions(batch) THEN "Drop"
        ELSE "Accept"

\* SpecularBatcherTransaction::new: the calldata must be an appendTxBatch call
\* that ABI-decodes to (version, tx_batch)
batcher_transaction_new(data) ==
    IF data.kind = "short" THEN NoBatch
    ELSE IF data.kind # "appendTxBatch" THEN NoBatch
    ELSE IF ~data.abi_ok THEN NoBatch
    ELSE [version |-> data.version, tx_batch |-> data.tx_batch]

\* SpecularBatcherTransaction has the fields version and tx_batch only, and
\* process_incoming discards the message's l1_origin, yet decode_batches_v0
\* reads batcher_tx.l1_inclusion_block: the value it reads is not determined
\* by the stage.  The message carries the value that will be read
\* (l1_inclusion_block); l1_origin is kept beside it as history
tagged(tx, msg) ==
    [version |-> tx.version, tx_batch |-> tx.tx_batch,
     l1_inclusion_block |-> msg.l1_inclusion_block, l1_origin |-> msg.l1_origin]

\* values decode_batches_v0 may read for a message of L1 block l1_origin:
\* the block's number, or the zero of a field that was never assigned
InclusionValues(l1_origin) == {0, l1_origin}

RECURSIVE decode_message_dropsRest(_, _)
\* an entry that fails to decode ends the message: the entries after it are lost
decode_message_dropsRest(datas, msg) ==
    IF datas = <<>> THEN <<>>
    ELSE LET tx == batcher_transaction_new(Head(datas))
             rest == decode_message_dropsRest(Tail(datas), msg)
         IN  IF tx = NoBatch THEN <<>> ELSE <<tagged(tx, msg)>> \o rest

RECURSIVE decode_message(_, _)
\* SpecularBatcherTransactions::process_incoming, for one message: the
\* transactions pushed to the queue, undecodable entries dropped
decode_message(datas, msg) ==
    IF datas = <<>> THEN <<>>
    ELSE LET tx == batcher_transaction_new(Head(datas))
             rest == decode_message(Tail(datas), msg)
         IN  IF tx = NoBatch THEN rest ELSE <<tagged(tx, msg)>> \o rest

RECURSIVE process_incoming(_, _)
\* SpecularBatcherTransactions::process_incoming: drain the channel into the queue
process_incoming(ch, queue) ==
    IF ch = <<>> THEN queue
    ELSE process_incoming(Tail(ch), queue \o decode_message(Head(ch).txs, Head(ch)))

\* decode_batches_v0, one batch list: the batches of its per-block entries
decode_batch_list(batch_list, batcher_tx, s) ==
    LET is_epoch_update == batch_list.is_epoch_update
        safe_l2_num == s.safe_head.number
        safe_l2_ts == s.safe_head.timestamp
        first_l2_block_num == batch_list.first_l2_block_num
        first_l2_block_timestamp ==
            (first_l2_block_num - safe_l2_num) * Blocktime + safe_l2_ts
        epoch_num == IF is_epoch_update THEN batch_list.epoch_num
                     ELSE s.safe_epoch.number
        epoch_hash == IF is_epoch_update THEN batch_list.epoch_hash
                      ELSE s.safe_epoch.hash
    IN  [i \in 1..Len(batch_list.blocks) |->
            [epoch_num |-> epoch_num, epoch_hash |-> epoch_hash,
             timestamp |-> first_l2_block_timestamp + (i - 1) * Blocktime,
             transactions |-> batch_list.blocks[i],
             l2_block_number |-> first_l2_block_num + (i - 1),
             l1_inclusion_block |-> batcher_tx.l1_inclusion_block,
             is_epoch_update |-> (i = 1 /\ is_epoch_update)]]

RECURSIVE decode_batches_v0(_, _, _, _)
\* decode_batches_v0 over the batch lists in order.  An RLP error in a list
\* fails the whole batcher transaction.  first_l2_block_num - safe_l2_num is
\* unsigned: below the safe head it panics in a build with overflow checks and
\* wraps otherwise; the wrapped product and sum equal the integer result
\* modulo 2^64, which is the integer result itself as long as it is not
\* negative (it never is for timestamps TsOf)
decode_batches_v0(lists, batcher_tx, s, overflow_checks) ==
    IF lists = <<>> THEN [status |-> "ok", batches |-> <<>>]
    ELSE IF ~Head(lists).rlp_ok THEN [status |-> "err", batches |-> <<>>]
    ELSE IF overflow_checks /\ Head(lists).first_l2_block_num < s.safe_head.number
    THEN [status |-> "panic", batches |-> <<>>]
    ELSE LET rest == decode_batches_v0(Tail(lists), batcher_tx, s, overflow_checks)
         IN  IF rest.status # "ok" THEN rest
             ELSE [status |-> "ok",
                   batches |-> decode_batch_list(Head(lists), batcher_tx, s) \o rest.batches]

\* mutant: the version is not looked at
decode_batches_anyVersion(batcher_tx, s, overflow_checks) ==
    decode_batches_v0(batcher_tx.tx_batch, batcher_tx, s, overflow_checks)

\* decode_batches: only version 0 is supported
decode_batches(batcher_tx, s, overflow_checks) ==
    IF batcher_tx.version # 0
    THEN [status |-> "err", batches |-> <<>>]
    ELSE decode_batches_v0(batcher_tx.tx_batch, batcher_tx, s, overflow_checks)

\* mutant: an occupied key keeps its value
map_insert_ifVacant(m, k, v) ==
    IF k \in DOMAIN m THEN m
    ELSE [x \in DOMAIN m \cup {k} |-> IF x = k THEN v ELSE m[x]]

\* BTreeMap::insert
map_insert(m, k, v) ==
    [x \in DOMAIN m \cup {k} |-> IF x = k THEN v ELSE m[x]]

\* BTreeMap::remove
map_remove(m, k) == [x \in DOMAIN m \ {k} |-> m[x]]

EmptyMap == [x \in {} |-> NoBatch]

\* BTreeMap::first_key_value (the key)
first_key(m) == CHOOSE k \in DOMAIN m : \A j \in DOMAIN m : k <= j

RECURSIVE insert_all(_, _)
\* try_next: every decoded batch is inserted under its timestamp, in order
insert_all(m, bs) ==
    IF bs = <<>> THEN m
    ELSE insert_all(map_insert(m, Head(bs).timestamp, Head(bs)), Tail(bs))

RECURSIVE derive_loop_keepsFuture(_, _)
\* mutant: a batch that is too early for the safe head stays buffered and
\* ends the loop
derive_loop_keepsFuture(m, s) ==
    IF DOMAIN m = {} THEN [batch |-> NoBatch, rest |-> m]
    ELSE LET batch == m[first_key(m)]
         IN  IF batch_status(batch, s) = "Accept"
             THEN [batch |-> batch, rest |-> map_remove(m, batch.timestamp)]
             ELSE IF batch.timestamp > s.safe_head.timestamp + Blocktime
             THEN [batch |-> NoBatch, rest |-> m]
             ELSE derive_loop_keepsFuture(map_remove(m, batch.timestamp), s)

RECURSIVE derive_loop(_, _)
\* try_next: the loop over the earliest buffered batch; the accepted batch (or
\* none) and the map that is left
derive_loop(m, s) ==
    IF DOMAIN m = {} THEN [batch |-> NoBatch, rest |-> m]
    ELSE LET batch == m[first_key(m)]
         IN  IF batch_status(batch, s) = "Accept"
             THEN [batch |-> batch, rest |-> map_remove(m, batch.timestamp)]
             ELSE derive_loop(map_remove(m, batch.timestamp), s)

\* From<SpecularBatchV0> for Batch
into_batch(val) ==
    [epoch_num |-> val.epoch_num, epoch_hash |-> val.epoch_hash,
     timestamp |-> val.timestamp, transactions |-> val.transactions,
     l1_inclusion_block |-> val.l1_inclusion_block]

\* mutant: the empty batch is generated as soon as the window is reached
empty_batch_atWindowEnd(s) ==
    LET current_l1_block == s.current_epoch_num
        epoch == s.safe_epoch
        next_epoch == epoch_by_number(s, epoch.number + 1)
    IN  IF next_epoch # NoEpoch /\ current_l1_block >= epoch.number + SeqWindowSize
        THEN LET next_timestamp == s.safe_head.timestamp + Blocktime
                 e == IF next_timestamp < next_epoch.timestamp THEN epoch ELSE next_epoch
             IN  [epoch_num |-> e.number, epoch_hash |-> e.hash,
                  timestamp |-> next_timestamp, transactions |-> <<>>,
                  l1_inclusion_block |-> current_l1_block]
        ELSE NoBatch

\* mutant: the next epoch is taken only after its timestamp has passed
empty_batch_lateEpoch(s) ==
    LET current_l1_block == s.current_epoch_num
        epoch == s.safe_epoch
        next_epoch == epoch_by_number(s, epoch.number + 1)
    IN  IF next_epoch # NoEpoch /\ current_l1_block > epoch.number + SeqWindowSize
        THEN LET next_timestamp == s.safe_head.timestamp + Blocktime
                 e == IF next_timestamp <= next_epoch.timestamp THEN epoch ELSE next_epoch
             IN  [epoch_num |-> e.number, epoch_hash |-> e.hash,
                  timestamp |-> next_timestamp, transactions |-> <<>>,
                  l1_inclusion_block |-> current_l1_block]
        ELSE NoBatch

\* try_next: the empty batch generated when no buffered batch was accepted
empty_batch(s) ==
    LET current_l1_block == s.current_epoch_num
        epoch == s.safe_epoch
        next_epoch == epoch_by_number(s, epoch.number + 1)
    IN  IF next_epoch # NoEpoch /\ current_l1_block > epoch.number + SeqWindowSize
        THEN LET next_timestamp == s.safe_head.timestamp + Blocktime
                 e == IF next_timestamp < next_epoch.timestamp THEN epoch ELSE next_epoch
             IN  [epoch_num |-> e.number, epoch_hash |-> e.hash,
                  timestamp |-> next_timestamp, transactions |-> <<>>,
                  l1_inclusion_block |-> current_l1_block]
        ELSE NoBatch

----------------------------------------------------------------------------
(* The engine (collaborator): its canonical chain follows the fork choice,  *)
(* and it builds the child of the fork-choice head with the asked content.  *)

NumberOfHash(h) ==
    CHOOSE n \in 0..MaxBlock : \E v \in Variants : HashOf(n, v) = h

VariantOfHash(h) ==
    CHOOSE v \in Variants : \E n \in 0..MaxBlock : HashOf(n, v) = h

\* a Valid forkchoice_updated makes the head block canonical
SetCanonical(ch, h) ==
    [m \in DOMAIN ch |->
        IF m = NumberOfHash(h) THEN VariantOfHash(h)
        ELSE IF m > NumberOfHash(h) THEN 0
        ELSE ch[m]]

\* the engine can build on the fork-choice head only the next block of the
\* fixed-blocktime chain
EngineCanBuild(fc, attributes) ==
    /\ NumberOfHash(fc.head_block_hash) + 1 <= MaxBlock
    /\ attributes.timestamp = TsOf(NumberOfHash(fc.head_block_hash) + 1)

EngineBuild(fc, attributes) ==
    PayloadOf(NumberOfHash(fc.head_block_hash) + 1, attributes.variant)

FcuResponses == {"Valid", "Invalid", "Syncing", "Error"}
FcuAttrsResponses == {"Valid", "ValidNoId", "Invalid", "Syncing", "Error"}
NewPayloadResponses == {"Valid", "Accepted", "Invalid", "Syncing", "Error"}

----------------------------------------------------------------------------
(* Callers of the shared driver *)

NoAttrs == [none |-> TRUE]
NoPayload == [none |-> TRUE]
NoFc == [none |-> TRUE]
NoPre == [none |-> TRUE]

IdleTask ==
    [pc |-> "idle", op |-> "none", attrs |-> NoAttrs, target |-> "none",
     action |-> NoAction, payload |-> NoPayload, fc |-> NoFc,
     inflight |-> "none", calls |-> <<>>, status |-> "none", result |-> "none"]

LockFree == lock.writer = NoTask /\ lock.readers = {}
NoWriter == lock.writer = NoTask

AcquireRead(t) == [lock EXCEPT !.readers = @ \cup {t}]
ReleaseRead(t) == [lock EXCEPT !.readers = @ \ {t}]
AcquireWrite(t) == [lock EXCEPT !.writer = t]
ReleaseWrite(t) == [lock EXCEPT !.writer = NoTask]

\* an operation returns an error to its caller
Fail(tk) == [tk EXCEPT !.pc = "done", !.inflight = "none", !.result = "err"]

NoHist == [none |-> TRUE]

\* Attributes::new
attributes_new(s, seq) ==
    [sequence_number |-> seq, epoch_hash |-> s.safe_epoch.hash, panicked |-> FALSE]

\* the pipeline after construction, nothing received yet
InitPipeline ==
    /\ st = InitState
    /\ channel = <<>>
    /\ txs = <<>>
    /\ batches = EmptyMap
    /\ pull = NoPull
    /\ att = attributes_new(InitState, 0)
    /\ hist = NoHist

\* EngineDriver::new, with the genesis block as the finalized head
InitDriver ==
    /\ unsafe_head = GenesisInfo
    /\ unsafe_epoch = EpochOf(1)
    /\ safe_head = GenesisInfo
    /\ safe_epoch = EpochOf(1)
    /\ finalized_head = GenesisInfo
    /\ finalized_epoch = EpochOf(1)
    /\ lock = [readers |-> {}, writer |-> NoTask]
    /\ chain = [n \in 0..MaxBlock |-> IF n = 0 THEN 1 ELSE 0]
    /\ task = [t \in Tasks |-> IdleTask]
    /\ pre = NoPre

NoDet == [block |-> NoBlock, attrs |-> NoAttrs, action |-> NoAction]

\* no call of the sequencing policy is under observation
NoSequencer == [status |-> "idle"]

Init ==
    /\ InitDriver
    /\ det = NoDet
    /\ sequencer = NoSequencer
    /\ InitPipeline

\* handle_attributes, first half: determine_action under the read lock
HandleAttributes(t, attributes, target, lookup_ok) ==
    /\ task[t].pc = "idle"
    /\ NoWriter
    /\ LET block == block_at(attributes.timestamp, finalized_head, chain, lookup_ok)
       IN  task' = [task EXCEPT ![t] =
                [IdleTask EXCEPT !.pc = "execute", !.op = "handle_attributes",
                                 !.attrs = attributes, !.target = target,
                                 !.action = determine_action(block, attributes)]]
    /\ UNCHANGED <<heads, lock, chain, det, sequencer, pipeline>>

\* execute_action, Action::Skip: head update under the write lock
ExecuteSkip(t) ==
    /\ task[t].pc = "execute"
    /\ task[t].action.kind = "Skip"
    /\ LockFree
    /\ SetDriver(execute_skip(Driver, task[t].target, task[t].action.info,
                              task[t].attrs.epoch))
    /\ task' = [task EXCEPT ![t].pc = "done", ![t].result = "ok"]
    /\ UNCHANGED <<lock, chain, det, sequencer, pipeline>>

\* mutant: the reorg step resets the unsafe head and keeps the unsafe epoch
ExecuteReorg_keepsEpoch(t) ==
    /\ task[t].pc = "execute"
    /\ task[t].action.kind = "Process"
    /\ task[t].action.reorg
    /\ LockFree
    /\ SetDriver(update_unsafe_head(Driver, safe_head, unsafe_epoch))
    /\ task' = [task EXCEPT ![t].pc = "build"]
    /\ UNCHANGED <<lock, chain, det, sequencer, pipeline>>

\* mutant: the reorg step resets the unsafe head to the finalized head
ExecuteReorg_toFinalized(t) ==
    /\ task[t].pc = "execute"
    /\ task[t].action.kind = "Process"
    /\ task[t].action.reorg
    /\ LockFree
    /\ SetDriver(update_unsafe_head(Driver, finalized_head, finalized_epoch))
    /\ task' = [task EXCEPT ![t].pc = "build"]
    /\ UNCHANGED <<lock, chain, det, sequencer, pipeline>>

\* mutant: the reorg step of Process(true) is left out
ExecuteReorg_dropped(t) ==
    /\ task[t].pc = "execute"
    /\ task[t].action.kind = "Process"
    /\ task[t].action.reorg
    /\ LockFree
    /\ task' = [task EXCEPT ![t].pc = "build"]
    /\ UNCHANGED <<heads, lock, chain, det, sequencer, pipeline>>

\* execute_action, Action::Process(true): reset the unsafe head under the write lock
ExecuteReorg(t) ==
    /\ task[t].pc = "execute"
    /\ task[t].action.kind = "Process"
    /\ task[t].action.reorg
    /\ LockFree
    /\ SetDriver(update_unsafe_head(Driver, safe_head, safe_epoch))
    /\ task' = [task EXCEPT ![t].pc = "build"]
    /\ UNCHANGED <<lock, chain, det, sequencer, pipeline>>

\* build_new_payload / build_payload under the read lock: forkchoice_updated
\* with the attributes is sent
BuildPayload(t) ==
    /\ \/ task[t].pc = "build"
       \/ /\ task[t].pc = "execute"
          /\ task[t].action.kind = "Process"
          /\ ~task[t].action.reorg
    /\ NoWriter
    /\ lock' = AcquireRead(t)
    /\ LET fc == create_forkchoice_state(unsafe_head, safe_head, finalized_head)
       IN  task' = [task EXCEPT ![t].pc = "fcu_attrs", ![t].fc = fc,
                                ![t].inflight = "forkchoice_updated",
                                ![t].calls = Append(@, "forkchoice_updated(attrs)")]
    /\ UNCHANGED <<heads, chain, det, sequencer, pipeline>>

\* build_payload: the engine answers forkchoice_updated(forkchoice, Some(attrs))
FcuAttrsReturn(t, resp) ==
    /\ task[t].pc = "fcu_attrs"
    /\ resp \in {"Valid", "ValidNoId"} => EngineCanBuild(task[t].fc, task[t].attrs)
    /\ chain' = IF resp \in {"Valid", "ValidNoId"}
                THEN SetCanonical(chain, task[t].fc.head_block_hash)
                ELSE chain
    /\ IF resp = "Valid"
       THEN /\ task' = [task EXCEPT ![t].pc = "get_payload",
                                    ![t].inflight = "get_payload",
                                    ![t].status = resp,
                                    ![t].calls = Append(@, "get_payload")]
            /\ lock' = lock
       ELSE /\ task' = [task EXCEPT ![t] = [Fail(@) EXCEPT !.status = resp]]
            /\ lock' = ReleaseRead(t)
    /\ UNCHANGED <<heads, det, sequencer, pipeline>>

\* build_payload: the engine answers get_payload; push_payload sends new_payload
GetPayloadReturn(t, ok) ==
    /\ task[t].pc = "get_payload"
    /\ IF ok
       THEN /\ task' = [task EXCEPT ![t].pc = "new_payload",
                                    ![t].payload = EngineBuild(task[t].fc, task[t].attrs),
                                    ![t].inflight = "new_payload",
                                    ![t].status = "Ok",
                                    ![t].calls = Append(@, "new_payload")]
            /\ lock' = lock
       ELSE /\ task' = [task EXCEPT ![t] = [Fail(@) EXCEPT !.status = "Error"]]
            /\ lock' = ReleaseRead(t)
    /\ UNCHANGED <<heads, chain, det, sequencer, pipeline>>

\* push_payload inside build_new_payload: the engine answers new_payload
NewPayloadReturn(t, resp) ==
    /\ task[t].pc = "new_payload"
    /\ IF resp \in {"Valid", "Accepted"}
       THEN task' = [task EXCEPT ![t].pc = "update", ![t].inflight = "none",
                                 ![t].status = resp]
       ELSE task' = [task EXCEPT ![t] = [Fail(@) EXCEPT !.status = resp]]
    /\ lock' = ReleaseRead(t)
    /\ UNCHANGED <<heads, chain, det, sequencer, pipeline>>

\* mutant: the book-keeping takes the write lock while readers still hold the driver
UpdateHead_overReaders(t) ==
    /\ task[t].pc = "update"
    /\ NoWriter
    /\ lock' = AcquireWrite(t)
    /\ LET new_head  == BlockInfoOfPayload(task[t].payload)
           new_epoch == task[t].attrs.epoch
           d  == execute_update(Driver, task[t].target, new_head, new_epoch)
           fc == create_forkchoice_state(d.unsafe_head, d.safe_head, d.finalized_head)
       IN  /\ SetDriver(d)
           /\ task' = [task EXCEPT ![t].pc = "final_fcu", ![t].fc = fc,
                                   ![t].inflight = "forkchoice_updated",
                                   ![t].calls = Append(@, "forkchoice_updated")]
    /\ UNCHANGED <<chain, det, sequencer, pipeline>>

\* execute_action: book-keeping under the write lock, then update_forkchoice
UpdateHead(t) ==
    /\ task[t].pc = "update"
    /\ LockFree
    /\ lock' = AcquireWrite(t)
    /\ LET new_head  == BlockInfoOfPayload(task[t].payload)
           new_epoch == task[t].attrs.epoch
           d  == execute_update(Driver, task[t].target, new_head, new_epoch)
           fc == create_forkchoice_state(d.unsafe_head, d.safe_head, d.finalized_head)
       IN  /\ SetDriver(d)
           /\ task' = [task EXCEPT ![t].pc = "final_fcu", ![t].fc = fc,
                                   ![t].inflight = "forkchoice_updated",
                                   ![t].calls = Append(@, "forkchoice_updated")]
    /\ UNCHANGED <<chain, det, sequencer, pipeline>>

\* update_forkchoice: the engine answers forkchoice_updated(forkchoice, None)
ForkchoiceReturn(t, resp) ==
    /\ task[t].pc = "final_fcu"
    /\ chain' = IF resp = "Valid"
                THEN SetCanonical(chain, task[t].fc.head_block_hash)
                ELSE chain
    /\ task' = [task EXCEPT ![t].pc = "done", ![t].inflight = "none",
                            ![t].result = IF resp = "Valid" THEN "ok" ELSE "err"]
    /\ lock' = ReleaseWrite(t)
    /\ UNCHANGED <<heads, det, sequencer, pipeline>>

\* handle_unsafe_payload (&mut self): push_payload sends new_payload
HandleUnsafePayload(t, payload) ==
    /\ task[t].pc = "idle"
    /\ LockFree
    /\ lock' = AcquireWrite(t)
    /\ task' = [task EXCEPT ![t] =
            [IdleTask EXCEPT !.pc = "unsafe_new_payload", !.op = "handle_unsafe_payload",
                             !.payload = payload, !.inflight = "new_payload",
                             !.calls = <<"new_payload">>]]
    /\ UNCHANGED <<heads, chain, det, sequencer, pipeline>>

\* mutant: a payload the engine is still syncing counts as pushed
UnsafeNewPayloadReturn_acceptsSyncing(t, resp) ==
    /\ task[t].pc = "unsafe_new_payload"
    /\ IF resp \in {"Valid", "Accepted", "Syncing"}
       THEN LET uh == BlockInfoOfPayload(task[t].payload)
                fc == create_forkchoice_state(uh, safe_head, finalized_head)
            IN  /\ unsafe_head' = uh
                /\ task' = [task EXCEPT ![t].pc = "final_fcu", ![t].fc = fc,
                                        ![t].inflight = "forkchoice_updated",
                                        ![t].status = resp,
                                        ![t].calls = Append(@, "forkchoice_updated")]
                /\ lock' = lock
       ELSE /\ unsafe_head' = unsafe_head
            /\ task' = [task EXCEPT ![t] = [Fail(@) EXCEPT !.status = resp]]
            /\ lock' = ReleaseWrite(t)
    /\ UNCHANGED <<unsafe_epoch, safe_head, safe_epoch, finalized_head,
                   finalized_epoch, chain, det, sequencer, pipeline>>

\* handle_unsafe_payload: new_payload answered (push_payload); unsafe_head set;
\* update_forkchoice sends forkchoice_updated without attributes
UnsafeNewPayloadReturn(t, resp) ==
    /\ task[t].pc = "unsafe_new_payload"
    /\ IF resp \in {"Valid", "Accepted"}
       THEN LET uh == BlockInfoOfPayload(task[t].payload)
                fc == create_forkchoice_state(uh, safe_head, finalized_head)
            IN  /\ unsafe_head' = uh
                /\ task' = [task EXCEPT ![t].pc = "final_fcu", ![t].fc = fc,
                                        ![t].inflight = "forkchoice_updated",
                                        ![t].status = resp,
                                        ![t].calls = Append(@, "forkchoice_updated")]
                /\ lock' = lock
       ELSE /\ unsafe_head' = unsafe_head
            /\ task' = [task EXCEPT ![t] = [Fail(@) EXCEPT !.status = resp]]
            /\ lock' = ReleaseWrite(t)
    /\ UNCHANGED <<unsafe_epoch, safe_head, safe_epoch, finalized_head,
                   finalized_epoch, chain, det, sequencer, pipeline>>

\* engine_ready (&self): a forkchoice_updated without attributes under the read lock
EngineReady(t) ==
    /\ task[t].pc = "idle"
    /\ NoWriter
    /\ lock' = AcquireRead(t)
    /\ LET fc == create_forkchoice_state(unsafe_head, safe_head, finalized_head)
       IN  task' = [task EXCEPT ![t] =
                [IdleTask EXCEPT !.pc = "ready_fcu", !.op = "engine_ready", !.fc = fc,
                                 !.inflight = "forkchoice_updated",
                                 !.calls = <<"forkchoice_updated">>]]
    /\ UNCHANGED <<heads, chain, det, sequencer, pipeline>>

EngineReadyReturn(t, resp) ==
    /\ task[t].pc = "ready_fcu"
    /\ chain' = IF resp = "Valid"
                THEN SetCanonical(chain, task[t].fc.head_block_hash)
                ELSE chain
    /\ task' = [task EXCEPT ![t].pc = "done", ![t].inflight = "none",
                            ![t].result = IF resp = "Error" THEN "false" ELSE "true"]
    /\ lock' = ReleaseRead(t)
    /\ UNCHANGED <<heads, det, sequencer, pipeline>>

\* EngineDriver::reorg under the write lock
Reorg(t) ==
    /\ task[t].pc = "idle"
    /\ LockFree
    /\ SetDriver(reorg(Driver))
    /\ UNCHANGED <<lock, chain, task, det, sequencer, pipeline>>

\* EngineDriver::update_finalized under the write lock
UpdateFinalized(t, head, epoch) ==
    /\ task[t].pc = "idle"
    /\ LockFree
    /\ SetDriver(update_finalized(Driver, head, epoch))
    /\ UNCHANGED <<lock, chain, task, det, sequencer, pipeline>>

\* the operation has returned to its caller
Return(t) ==
    /\ task[t].pc = "done"
    /\ task' = [task EXCEPT ![t] = IdleTask]
    /\ UNCHANGED <<heads, lock, chain, det, sequencer, pipeline>>

\* history variable: the heads at the moment the observed caller's operation
\* began, kept until the operation has returned
Observe(t) ==
    pre' = IF task[t].pc = "idle" /\ task'[t].pc # "idle" THEN Driver
           ELSE IF task'[t].pc = "idle" THEN NoPre
           ELSE pre

Unobserved == pre' = pre

\* the heads as they were when reorg() was called
Reorged == [op |-> "reorg", before |-> Driver]

\* a payload gossiped on the network that extends the unsafe head
ChildPayloads ==
    {PayloadOf(n, v) : n \in {unsafe_head.number + 1} \cap (1..MaxBlock), v \in Variants}

\* attributes for the block that follows the given head
NextAttrs(head) == {a \in AttrsSet : a.timestamp = head.timestamp + Blocktime}

\* Two callers share the driver.  "t1" is the derivation loop: it handles
\* derived attributes for the block after the safe head (target Safe), resets
\* the driver and finalizes the safe head.  "t2" is the sequencing and gossip
\* side: it handles attributes built on the unsafe head (target Unsafe),
\* ingests gossiped payloads that extend the unsafe head and probes the engine.
Next ==
    \/ \E a \in NextAttrs(safe_head), ok \in BOOLEAN :
            HandleAttributes("t1", a, "Safe", ok) /\ Unobserved
    \/ \E a \in NextAttrs(unsafe_head), ok \in BOOLEAN :
            HandleAttributes("t2", a, "Unsafe", ok) /\ Unobserved
    \/ \E t \in Tasks : ExecuteSkip(t) /\ Unobserved
    \/ \E t \in Tasks : ExecuteReorg(t) /\ Unobserved
    \/ \E t \in Tasks : BuildPayload(t) /\ Unobserved
    \/ \E t \in Tasks, r \in FcuAttrsResponses : FcuAttrsReturn(t, r) /\ Unobserved
    \/ \E t \in Tasks, ok \in BOOLEAN : GetPayloadReturn(t, ok) /\ Unobserved
    \/ \E t \in Tasks, r \in NewPayloadResponses : NewPayloadReturn(t, r) /\ Unobserved
    \/ \E t \in Tasks : UpdateHead(t) /\ Unobserved
    \/ \E t \in Tasks, r \in FcuResponses : ForkchoiceReturn(t, r) /\ Unobserved
    \/ \E p \in ChildPayloads : HandleUnsafePayload("t2", p) /\ Unobserved
    \/ \E r \in NewPayloadResponses : UnsafeNewPayloadReturn("t2", r) /\ Unobserved
    \/ EngineReady("t2") /\ Unobserved
    \/ \E r \in FcuResponses : EngineReadyReturn("t2", r) /\ Unobserved
    \/ Reorg("t1") /\ Unobserved
    \/ UpdateFinalized("t1", safe_head, safe_epoch) /\ Unobserved
    \/ \E t \in Tasks : Return(t) /\ Unobserved

Spec == Init /\ [][Next]_vars

\* one caller (the driver loop awaits each operation before the next), every
\* argument the operations' signatures admit
NextSeq ==
    \/ \E a \in AttrsSet, tg \in Targets, ok \in BOOLEAN :
            HandleAttributes("t1", a, tg, ok) /\ Observe("t1")
    \/ ExecuteSkip("t1") /\ Observe("t1")
    \/ ExecuteReorg("t1") /\ Observe("t1")
    \/ BuildPayload("t1") /\ Observe("t1")
    \/ \E r \in FcuAttrsResponses : FcuAttrsReturn("t1", r) /\ Observe("t1")
    \/ \E ok \in BOOLEAN : GetPayloadReturn("t1", ok) /\ Observe("t1")
    \/ \E r \in NewPayloadResponses : NewPayloadReturn("t1", r) /\ Observe("t1")
    \/ UpdateHead("t1") /\ Observe("t1")
    \/ \E r \in FcuResponses : ForkchoiceReturn("t1", r) /\ Observe("t1")
    \/ \E p \in Payloads : HandleUnsafePayload("t1", p) /\ Observe("t1")
    \/ \E r \in NewPayloadResponses : UnsafeNewPayloadReturn("t1", r) /\ Observe("t1")
    \/ EngineReady("t1") /\ Observe("t1")
    \/ \E r \in FcuResponses : EngineReadyReturn("t1", r) /\ Observe("t1")
    \/ Reorg("t1") /\ pre' = Reorged
    \/ \E h \in BlockInfos, e \in Epochs : UpdateFinalized("t1", h, e) /\ Observe("t1")
    \/ Return("t1") /\ Observe("t1")

SpecSeq == Init /\ [][NextSeq]_vars

----------------------------------------------------------------------------
(* determine_action as a function of the looked-up block and the attributes *)

DetTxLists == {<<>>, <<1>>, <<2>>, <<1, 2>>, <<2, 1>>}

\* local blocks whose compared fields vary independently
DetBlocks ==
    {[number |-> 1, hash |-> HashOf(1, 1), timestamp |-> ts,
      transactions |-> MapSeq(tl, Keccak), mix_hash |-> mh, author |-> au,
      gas_limit |-> gl] :
        ts \in {TsOf(1), TsOf(2)}, tl \in DetTxLists, mh \in {6, 7},
        au \in {5, 8}, gl \in {4, 9}}

DetAttrs ==
    {[timestamp |-> ts, prev_randao |-> pr, suggested_fee_recipient |-> fr,
      transactions |-> tl, gas_limit |-> gl, epoch |-> EpochOf(1), variant |-> 1] :
        ts \in {TsOf(1), TsOf(2)}, tl \in DetTxLists, pr \in {6, 7},
        fr \in {5, 8}, gl \in {4, 9}}

InitDetermine ==
    /\ InitDriver
    /\ InitPipeline
    /\ det \in [block : DetBlocks \cup {NoBlock}, attrs : DetAttrs, action : {NoAction}]
    /\ sequencer = NoSequencer

\* EngineDriver::determine_action applied to the result of block_at
DetermineAction ==
    /\ det.action = NoAction
    /\ det' = [det EXCEPT !.action = determine_action(det.block, det.attrs)]
    /\ UNCHANGED <<heads, lock, chain, task, pre, sequencer, pipeline>>

NextDetermine == DetermineAction

SpecDetermine == InitDetermine /\ [][NextDetermine]_vars

\* C2: the action is Skip(BlockInfo(block)) when the lookup returned a block
\* and the block matches the attributes (transaction hashes in order, timestamp,
\* prev_randao = mix_hash, fee recipient = miner, gas limit), Process(reorg =
\* true) when it returned a block that does not match, and Process(reorg =
\* false) when it returned no block.
C2_ActionFollowsLocalBlock ==
    det.action # NoAction =>
        LET b == det.block
            a == det.attrs
            matches ==
                /\ Len(a.transactions) = Len(b.transactions)
                /\ \A i \in 1..Len(a.transactions) :
                        Keccak(a.transactions[i]) = b.transactions[i]
                /\ a.timestamp = b.timestamp
                /\ a.prev_randao = b.mix_hash
                /\ a.suggested_fee_recipient = b.author
                /\ a.gas_limit = b.gas_limit
        IN  IF b = NoBlock
            THEN det.action = [kind |-> "Process", info |-> NoBlock, reorg |-> FALSE]
            ELSE IF matches
                 THEN det.action = [kind |-> "Skip", reorg |-> FALSE,
                                    info |-> [number |-> b.number, hash |-> b.hash,
                                              timestamp |-> b.timestamp]]
                 ELSE det.action = [kind |-> "Process", info |-> NoBlock, reorg |-> TRUE]

\* a block that differs from the attributes in the gas limit only
C2_Witness ==
    /\ det.block # NoBlock
    /\ det.action = Process(TRUE)
    /\ det.block.transactions = MapSeq(det.attrs.transactions, Keccak)
    /\ Len(det.attrs.transactions) = 2
    /\ det.block.timestamp = det.attrs.timestamp
    /\ det.block.mix_hash = det.attrs.prev_randao
    /\ det.block.author = det.attrs.suggested_fee_recipient
    /\ det.block.gas_limit # det.attrs.gas_limit

----------------------------------------------------------------------------
(* Properties of the engine driver *)

\* the observed caller's handle_attributes has returned
Handled(t) == task[t].op = "handle_attributes" /\ task[t].pc = "done"

\* the head (and epoch) a handle call is aimed at
TargetHead(d, target) == IF target = "Safe" THEN d.safe_head ELSE d.unsafe_head
TargetEpoch(d, target) == IF target = "Safe" THEN d.safe_epoch ELSE d.unsafe_epoch

\* C3: a handle that takes the Skip action makes no engine call, succeeds as a
\* pure head update, and handling the same attributes again from the resulting
\* state (same finalized head, same local chain) takes Skip again and leaves
\* all three heads and epochs as they are.
C3_SkipIsIdempotentHeadUpdate ==
    \A t \in Tasks :
        (Handled(t) /\ task[t].action.kind = "Skip") =>
            /\ task[t].calls = <<>>
            /\ task[t].result = "ok"
            /\ pre.finalized_head = finalized_head
            /\ LET again == determine_action(
                              block_at(task[t].attrs.timestamp, finalized_head, chain, TRUE),
                              task[t].attrs)
               IN  /\ again = task[t].action
                   /\ execute_skip(Driver, task[t].target, again.info,
                                   task[t].attrs.epoch) = Driver

C3_Witness ==
    /\ Handled("t1")
    /\ task["t1"].action.kind = "Skip"
    /\ task["t1"].target = "Safe"
    /\ pre.safe_head # safe_head
    /\ pre.unsafe_head # unsafe_head

\* C4 as stated: a Skip with target Safe never changes the unsafe head or epoch.
C4_SkipSafeNeverTouchesUnsafe ==
    \A t \in Tasks :
        (Handled(t) /\ task[t].action.kind = "Skip" /\ task[t].target = "Safe") =>
            /\ unsafe_head = pre.unsafe_head
            /\ unsafe_epoch = pre.unsafe_epoch

\* C4 amended: a Skip with target Safe leaves the unsafe head and epoch
\* unchanged unless the discovered block's number is greater than the unsafe
\* head's number; in that case the unsafe head and epoch are set to the
\* resulting safe head and safe epoch.
C4_SkipSafeTouchesUnsafeOnlyToCatchUp ==
    \A t \in Tasks :
        (Handled(t) /\ task[t].action.kind = "Skip" /\ task[t].target = "Safe") =>
            /\ safe_head = task[t].action.info
            /\ IF task[t].action.info.number > pre.unsafe_head.number
               THEN unsafe_head = safe_head /\ unsafe_epoch = safe_epoch
               ELSE unsafe_head = pre.unsafe_head /\ unsafe_epoch = pre.unsafe_epoch

C4_Witness ==
    /\ Handled("t1")
    /\ task["t1"].action.kind = "Skip"
    /\ task["t1"].target = "Safe"
    /\ task["t1"].action.info.number > pre.unsafe_head.number
    /\ unsafe_head # pre.unsafe_head

\* C5: in Process(reorg = true) the unsafe head and epoch are the safe head and
\* epoch of the call's start while the payload is built, the forkchoice of the
\* forkchoice_updated(forkchoice, Some(attrs)) call has head = safe_head.hash,
\* and a successful call has then fetched and pushed the payload and set the
\* target head to the built block.
C5_ReorgBeforeBuild ==
    \A t \in Tasks :
        (task[t].op = "handle_attributes" /\ task[t].action.kind = "Process"
            /\ task[t].action.reorg) =>
            /\ task[t].pc \in {"fcu_attrs", "get_payload", "new_payload"} =>
                /\ unsafe_head = pre.safe_head
                /\ unsafe_epoch = pre.safe_epoch
                /\ safe_head = pre.safe_head
                /\ task[t].fc.head_block_hash = safe_head.hash
            /\ (task[t].pc = "done" /\ task[t].result = "ok") =>
                /\ task[t].calls = <<"forkchoice_updated(attrs)", "get_payload",
                                     "new_payload", "forkchoice_updated">>
                /\ TargetHead(Driver, task[t].target) = BlockInfoOfPayload(task[t].payload)
                /\ task[t].payload.block_number = pre.safe_head.number + 1

C5_Witness ==
    /\ Handled("t1")
    /\ task["t1"].action.kind = "Process"
    /\ task["t1"].action.reorg
    /\ task["t1"].result = "ok"
    /\ pre.unsafe_head # pre.safe_head

\* C6 as stated: when handle returns an error from the Process action, the
\* target head and its epoch have the values they had before the call.
C6_ErrorKeepsTargetHead ==
    \A t \in Tasks :
        (Handled(t) /\ task[t].action.kind = "Process" /\ task[t].result = "err") =>
            /\ TargetHead(Driver, task[t].target) = TargetHead(pre, task[t].target)
            /\ TargetEpoch(Driver, task[t].target) = TargetEpoch(pre, task[t].target)

\* C6 amended: when the forkchoice_updated with attributes, get_payload or
\* new_payload fails, handle returns an error, the safe and finalized heads and
\* epochs keep their values, and the unsafe head and epoch keep theirs unless
\* reorg = true, in which case they are the safe head and epoch; when the final
\* forkchoice_updated is not Valid, handle returns an error after the target
\* head has been set to the built block.
C6_ErrorAfterBuildOrAfterUpdate ==
    \A t \in Tasks :
        (Handled(t) /\ task[t].action.kind = "Process" /\ task[t].result = "err") =>
            IF Len(task[t].calls) = 4
            THEN TargetHead(Driver, task[t].target) = BlockInfoOfPayload(task[t].payload)
            ELSE /\ safe_head = pre.safe_head
                 /\ safe_epoch = pre.safe_epoch
                 /\ finalized_head = pre.finalized_head
                 /\ finalized_epoch = pre.finalized_epoch
                 /\ IF task[t].action.reorg
                    THEN unsafe_head = pre.safe_head /\ unsafe_epoch = pre.safe_epoch
                    ELSE unsafe_head = pre.unsafe_head /\ unsafe_epoch = pre.unsafe_epoch

C6_Witness ==
    /\ Handled("t1")
    /\ task["t1"].action.kind = "Process"
    /\ task["t1"].result = "err"
    /\ Len(task["t1"].calls) = 3
    /\ task["t1"].action.reorg
    /\ unsafe_head # pre.unsafe_head

InFlight == {t \in Tasks : task[t].inflight # "none"}

Quiescent == \A t \in Tasks : task[t].pc \in {"idle", "done"}

\* C8: after every completed driver operation safe_head.number <= unsafe_head.number.
C8_SafeNotAheadOfUnsafe ==
    Quiescent => safe_head.number <= unsafe_head.number

\* C9: after every completed driver operation finalized_head.number <= safe_head.number.
C9_FinalizedNotAheadOfSafe ==
    Quiescent => finalized_head.number <= safe_head.number



\* C15: handle_unsafe_payload calls new_payload first; on Valid or Accepted it
\* sets unsafe_head to the payload's block info and sends forkchoice_updated
\* without attributes for the new head; on any other answer it fails with all
\* heads unchanged and no fork-choice update; safe and finalized heads and
\* epochs are unchanged throughout
C15_UnsafePayloadPushedThenHead ==
    (task["t1"].op = "handle_unsafe_payload" /\ task["t1"].pc \in {"final_fcu", "done"}) =>
        /\ task["t1"].calls[1] = "new_payload"
        /\ safe_head = pre.safe_head /\ safe_epoch = pre.safe_epoch
        /\ finalized_head = pre.finalized_head /\ finalized_epoch = pre.finalized_epoch
        /\ IF task["t1"].status \in {"Valid", "Accepted"}
           THEN /\ unsafe_head.number = task["t1"].payload.block_number
                /\ unsafe_head.hash = task["t1"].payload.block_hash
                /\ unsafe_head.timestamp = task["t1"].payload.timestamp
                /\ task["t1"].calls = <<"new_payload", "forkchoice_updated">>
                /\ task["t1"].fc.head_block_hash = task["t1"].payload.block_hash
                /\ task["t1"].fc.safe_block_hash = pre.safe_head.hash
                /\ task["t1"].fc.finalized_block_hash = pre.finalized_head.hash
           ELSE /\ task["t1"].pc = "done"
                /\ task["t1"].result = "err"
                /\ Driver = pre
                /\ task["t1"].calls = <<"new_payload">>

\* C15 happens: a payload answered Accepted moved the unsafe head and the
\* fork-choice update for it was answered
C15_Witness ==
    /\ task["t1"].op = "handle_unsafe_payload"
    /\ task["t1"].pc = "done"
    /\ task["t1"].status = "Accepted"
    /\ task["t1"].result = "ok"
    /\ unsafe_head # pre.unsafe_head


\* C16: after reorg(), from any driver state, the unsafe and the safe head and
\* epoch equal the finalized head and epoch, which the call leaves unchanged,
\* and a second reorg() changes nothing
C16_ReorgResetsToFinalized ==
    ("op" \in DOMAIN pre /\ pre.op = "reorg") =>
        /\ finalized_head = pre.before.finalized_head
        /\ finalized_epoch = pre.before.finalized_epoch
        /\ unsafe_head = finalized_head /\ safe_head = finalized_head
        /\ unsafe_epoch = finalized_epoch /\ safe_epoch = finalized_epoch
        /\ reorg(Driver) = Driver

\* C16 happens: reorg() was called with three different heads
C16_Witness ==
    /\ "op" \in DOMAIN pre
    /\ pre.op = "reorg"
    /\ pre.before.unsafe_head # pre.before.safe_head
    /\ pre.before.safe_head # pre.before.finalized_head
    /\ pre.before.unsafe_head # pre.before.finalized_head
    /\ unsafe_head = finalized_head


\* C17: after a successful Process action with target Safe, if reorg was true
\* or the new safe head's number is above the unsafe head's number of the
\* call's start, the unsafe head and epoch equal the new safe head and epoch
C17_ProcessSafeCarriesUnsafe ==
    (Handled("t1") /\ task["t1"].action.kind = "Process"
        /\ task["t1"].target = "Safe" /\ task["t1"].result = "ok") =>
        ((task["t1"].action.reorg \/ safe_head.number > pre.unsafe_head.number) =>
            /\ safe_head = BlockInfoOfPayload(task["t1"].payload)
            /\ unsafe_head = safe_head
            /\ unsafe_epoch = safe_epoch)

\* C17 happens: a Process without reorg built a safe block above the unsafe head
C17_Witness ==
    /\ Handled("t1")
    /\ task["t1"].action.kind = "Process"
    /\ ~task["t1"].action.reorg
    /\ task["t1"].target = "Safe"
    /\ task["t1"].result = "ok"
    /\ safe_head.number > pre.unsafe_head.number
    /\ unsafe_head = safe_head

\* C28: a Process action sends forkchoice_updated with the attributes, then
\* get_payload once that answered Valid with a payload id, then new_payload
\* once the payload was fetched, then sets the target head to the payload's
\* block and the attributes' epoch once new_payload answered Valid or
\* Accepted, then sends forkchoice_updated without attributes for the heads
\* as updated; a successful Process has made exactly these calls, the last
\* engine answer it acted on before the update being Valid or Accepted
C28_ProcessCallOrder ==
    \A t \in Tasks :
        (task[t].op = "handle_attributes" /\ task[t].action.kind = "Process") =>
            /\ task[t].pc = "fcu_attrs" =>
                 task[t].calls = <<"forkchoice_updated(attrs)">>
            /\ task[t].pc = "get_payload" =>
                 /\ task[t].calls = <<"forkchoice_updated(attrs)", "get_payload">>
                 /\ task[t].status = "Valid"
            /\ task[t].pc = "new_payload" =>
                 task[t].calls = <<"forkchoice_updated(attrs)", "get_payload",
                                   "new_payload">>
            /\ task[t].pc = "update" =>
                 /\ task[t].status \in {"Valid", "Accepted"}
                 /\ Len(task[t].calls) = 3
                 /\ safe_head = pre.safe_head
            /\ task[t].pc = "final_fcu" =>
                 /\ task[t].calls = <<"forkchoice_updated(attrs)", "get_payload",
                                      "new_payload", "forkchoice_updated">>
                 /\ TargetHead(Driver, task[t].target) = BlockInfoOfPayload(task[t].payload)
                 /\ TargetEpoch(Driver, task[t].target) = task[t].attrs.epoch
                 /\ task[t].fc = create_forkchoice_state(unsafe_head, safe_head,
                                                         finalized_head)
            /\ (task[t].pc = "done" /\ task[t].result = "ok") =>
                 /\ task[t].calls = <<"forkchoice_updated(attrs)", "get_payload",
                                      "new_payload", "forkchoice_updated">>
                 /\ task[t].status \in {"Valid", "Accepted"}

\* C34: from the moment a handle_attributes has determined its action until
\* its final head update, no step of another caller changes a head or an
\* epoch of the driver
C34_HandleAttributesAtomic ==
    [][\A t \in Tasks :
          (/\ task[t].op = "handle_attributes"
           /\ task[t].pc \in {"execute", "build", "fcu_attrs", "get_payload",
                              "new_payload", "update"}
           /\ task'[t] = task[t])
          => UNCHANGED heads]_vars

\* the handle_attributes of t returned an error of build_new_payload: of the
\* forkchoice_updated with attributes, of get_payload or of new_payload
BuildFailed(t) ==
    /\ Handled(t)
    /\ task[t].op = "handle_attributes"
    /\ task[t].action.kind = "Process"
    /\ task[t].result = "err"
    /\ Len(task[t].calls) <= 3

C36_ProcessSafeKeepsUnsafeAhead ==
    [][\A t \in Tasks :
          (/\ task[t].op = "handle_attributes"
           /\ task[t].action.kind = "Process"
           /\ ~task[t].action.reorg
           /\ task[t].target = "Safe"
           /\ task[t].pc = "update"
           /\ task'[t].pc = "final_fcu"
           /\ unsafe_head.number >= task[t].payload.block_number)
          => UNCHANGED <<unsafe_head, unsafe_epoch>>]_vars

\* the (block, epoch) pairs a handle_attributes in progress holds: the block
\* it skips to or the block it built, with the epoch of its attributes
TaskPairs ==
    {<<task[t].action.info, task[t].attrs.epoch>> :
        t \in {u \in Tasks : task[u].op = "handle_attributes"
                              /\ task[u].action.kind = "Skip"}}
    \cup {<<BlockInfoOfPayload(task[t].payload), task[t].attrs.epoch>> :
            t \in {u \in Tasks : task[u].op = "handle_attributes"
                                  /\ task[u].payload # NoPayload}}

\* C37: a head and its epoch are updated together: every step that moves the
\* safe head sets the safe head and epoch to a block and the epoch it came
\* with (of a handle_attributes, or the finalized pair), and every step that
\* moves the unsafe head sets the unsafe head and epoch to such a pair or to
\* the safe pair
C37_HeadAndEpochMoveTogether ==
    [][/\ safe_head' # safe_head =>
             <<safe_head', safe_epoch'>>
                \in TaskPairs \cup {<<finalized_head, finalized_epoch>>}
       /\ unsafe_head' # unsafe_head =>
             <<unsafe_head', unsafe_epoch'>>
                \in TaskPairs \cup {<<finalized_head, finalized_epoch>>,
                                    <<safe_head, safe_epoch>>,
                                    <<safe_head', safe_epoch'>>}]_vars

\* C38: a handle_attributes that has determined Process(reorg = false) found
\* the local chain without a block at number finalized_head.number +
\* (attrs.timestamp - finalized_head.timestamp) / blocktime
C38_ProcessFalseOnlyWithoutBlock ==
    \A t \in Tasks :
        (/\ task[t].op = "handle_attributes"
         /\ task[t].pc = "execute"
         /\ task[t].action = Process(FALSE))
        => LET block_num ==
                   finalized_head.number
                     + TruncDiv(task[t].attrs.timestamp - finalized_head.timestamp,
                                Blocktime)
           IN  ~(block_num \in DOMAIN chain /\ chain[block_num] # 0)

----------------------------------------------------------------------------
(* The Attributes stage *)

MaxSeq == 3            \* sequence numbers of the model stay below this

FeeVault == "fee_vault"          \* SystemAccounts::default().fee_vault

\* the State's safe head and safe epoch move to the next L2 block
StateUpdateSafeHead(e) ==
    /\ st.safe_head.number < MaxBlock
    /\ e \in st.l1
    /\ e >= st.safe_epoch.number
    /\ st' = [st EXCEPT !.safe_head = BlockInfoOfBlock(BlockOf(st.safe_head.number + 1, 1)),
                        !.safe_epoch = EpochOf(e)]

\* the State learns an L1 block; the ingest path may hand blocks over in any
\* order
StatePutL1Block(n) ==
    /\ n \notin st.l1
    /\ st' = put_l1_block(st, n)

\* TransactionDeriver::derive_transactions: the deposit for this position of
\* the epoch, then the batch's own transactions
derive_transactions(sequence_number, epoch_hash, batch, l1_info) ==
    <<[kind |-> "deposit", sequence_number |-> sequence_number,
       epoch_hash |-> epoch_hash, l1 |-> l1_info.number]>> \o batch.transactions

\* mutant: the stage forgets which epoch it emitted last
update_sequence_number_keepsHash(a, batch_epoch_hash) ==
    [a EXCEPT !.sequence_number = IF a.epoch_hash # batch_epoch_hash THEN 0 ELSE @ + 1]

\* Attributes::update_sequence_number
update_sequence_number(a, batch_epoch_hash) ==
    [a EXCEPT !.sequence_number = IF a.epoch_hash # batch_epoch_hash THEN 0 ELSE @ + 1,
              !.epoch_hash = batch_epoch_hash]

\* Attributes::derive_attributes, after the sequence number is updated
payload_attributes(a, batch, l1_info) ==
    [timestamp |-> batch.timestamp,
     prev_randao |-> l1_info.mix_hash,
     suggested_fee_recipient |-> FeeVault,
     transactions |-> derive_transactions(a.sequence_number, a.epoch_hash, batch, l1_info),
     no_tx_pool |-> TRUE,
     gas_limit |-> 9,
     epoch |-> [number |-> batch.epoch_num, hash |-> batch.epoch_hash,
                timestamp |-> l1_info.timestamp],
     l1_inclusion_block |-> batch.l1_inclusion_block,
     seq_number |-> a.sequence_number]

\* batches the upstream stage can hand over: on a known or an unknown L1 block
AttBatches ==
    {[epoch_num |-> e, epoch_hash |-> h, timestamp |-> st.safe_head.timestamp + Blocktime,
      transactions |-> tl, l1_inclusion_block |-> e] :
        e \in 1..MaxL1, h \in {L1Info(i).hash : i \in 1..MaxL1} \cup {0},
        tl \in {<<>>, <<PlainTx>>}}

\* Attributes::next on a batch from upstream: derive_attributes; the lookup of
\* the batch's L1 block is unwrapped, so an unknown epoch hash ends the stage
AttributesNext(batch) ==
    /\ ~att.panicked
    /\ att.sequence_number < MaxSeq
    /\ LET a == update_sequence_number(att, batch.epoch_hash)
           l1_info == l1_info_by_hash(st, batch.epoch_hash)
       IN  IF l1_info = NoInfo
           THEN /\ att' = [a EXCEPT !.panicked = TRUE]
                /\ hist' = hist
           ELSE /\ att' = a
                /\ hist' = [last |-> payload_attributes(a, batch, l1_info),
                            before_hash |-> hist.prev_hash,
                            before_seq |-> hist.prev_seq,
                            prev_hash |-> batch.epoch_hash,
                            prev_seq |-> a.sequence_number]
    /\ UNCHANGED <<driver, st, channel, txs, batches, pull>>

\* Attributes::purge (the upstream purge keeps no state in this specification)
AttributesPurge ==
    /\ ~att.panicked
    /\ att' = [att EXCEPT !.sequence_number = 0, !.epoch_hash = st.safe_epoch.hash]
    /\ hist' = [last |-> NoAttrs, before_hash |-> 0, before_seq |-> 0,
                prev_hash |-> st.safe_epoch.hash, prev_seq |-> 0]
    /\ UNCHANGED <<driver, st, channel, txs, batches, pull>>

\* the stage constructed with any starting sequence number
InitAttributes ==
    /\ InitDriver
    /\ det = NoDet
    /\ sequencer = NoSequencer
    /\ st = InitState
    /\ channel = <<>>
    /\ txs = <<>>
    /\ batches = EmptyMap
    /\ pull = NoPull
    /\ \E seq \in 0..(MaxSeq - 1) :
          /\ att = attributes_new(st, seq)
          /\ hist = [last |-> NoAttrs, before_hash |-> 0, before_seq |-> 0,
                     prev_hash |-> st.safe_epoch.hash, prev_seq |-> seq]

NextAttributes ==
    \/ \E batch \in AttBatches : AttributesNext(batch)
    \/ AttributesPurge
    \/ \E n \in 1..MaxL1 :
          StatePutL1Block(n) /\ UNCHANGED <<driver, channel, txs, batches, pull, att, hist>>
    \/ \E e \in 1..MaxL1 :
          StateUpdateSafeHead(e) /\ UNCHANGED <<driver, channel, txs, batches, pull, att, hist>>

SpecAttributes == InitAttributes /\ [][NextAttributes]_vars

\* C10: every emitted attributes value has seq_number 0 exactly when its epoch
\* hash differs from the epoch hash of the attributes emitted before it (the
\* State's safe-epoch hash read at construction or purge when it is the
\* first), and otherwise one more than the sequence number before it
C10_SeqNumberFollowsEpochChange ==
    hist.last # NoAttrs =>
        /\ (hist.last.seq_number = 0) <=> (hist.last.epoch.hash # hist.before_hash)
        /\ hist.last.epoch.hash = hist.before_hash =>
              hist.last.seq_number = hist.before_seq + 1

\* C10 happens: after a purge that read a moved safe epoch, attributes of
\* that epoch are emitted with the number after the reset
C10_Witness ==
    /\ hist.last # NoAttrs
    /\ hist.before_hash = st.safe_epoch.hash
    /\ st.safe_epoch # EpochOf(1)
    /\ hist.last.epoch.hash = hist.before_hash
    /\ hist.last.seq_number = 1


----------------------------------------------------------------------------
(* The Batches stage *)

MaxFirst == 2          \* highest first_l2_block_num a batch list names

\* one-block transaction lists of a batch list that extends the epoch
PlainBlocks ==
    {<< <<>> >>, << <<PlainTx>> >>, << <<EmptyTx>> >>, << <<PlainTx, EmptyTx>> >>}

\* one-block transaction lists of a batch list that updates the epoch to e
UpdateBlocks(e) ==
    {<< <<tx>> >> : tx \in OracleTxVariants(e)}
        \cup {<< <<>> >>, << <<GarbageTx>> >>, << <<OracleTx(e), EmptyTx>> >>,
              << <<PlainTx, OracleTx(e)>> >>}

\* batch lists of two blocks, starting at the first L2 block
TwoBlockLists ==
    {[is_epoch_update |-> FALSE, first_l2_block_num |-> 1, epoch_num |-> 0,
      epoch_hash |-> 0, blocks |-> bl, rlp_ok |-> TRUE] :
        bl \in {<< <<PlainTx>>, <<PlainTx>> >>, << <<EmptyTx>>, <<PlainTx>> >>}}
    \cup {[is_epoch_update |-> TRUE, first_l2_block_num |-> 1, epoch_num |-> e,
           epoch_hash |-> L1Info(e).hash, blocks |-> << <<OracleTx(e)>>, <<PlainTx>> >>,
           rlp_ok |-> TRUE] : e \in 1..MaxL1}

\* the batch lists of the model; an epoch update names a wrong hash only
\* around the right oracle call, and carries a wrong oracle call only in a
\* list for the first L2 block
BatchLists ==
    {[is_epoch_update |-> FALSE, first_l2_block_num |-> f, epoch_num |-> 0,
      epoch_hash |-> 0, blocks |-> bl, rlp_ok |-> TRUE] :
        f \in 0..MaxFirst, bl \in PlainBlocks}
    \cup UNION {{[is_epoch_update |-> TRUE, first_l2_block_num |-> 1, epoch_num |-> e,
                  epoch_hash |-> L1Info(e).hash, blocks |-> bl, rlp_ok |-> TRUE] :
                    bl \in UpdateBlocks(e)} : e \in 1..MaxL1}
    \cup {[is_epoch_update |-> TRUE, first_l2_block_num |-> f, epoch_num |-> e,
           epoch_hash |-> L1Info(e).hash, blocks |-> << <<OracleTx(e)>> >>,
           rlp_ok |-> TRUE] : f \in 1..MaxFirst, e \in 1..MaxL1}
    \cup {[is_epoch_update |-> TRUE, first_l2_block_num |-> f, epoch_num |-> e,
           epoch_hash |-> 0, blocks |-> << <<OracleTx(e)>> >>, rlp_ok |-> TRUE] :
             f \in 1..MaxFirst, e \in 1..MaxL1}
    \cup TwoBlockLists

BadRlpList ==
    [is_epoch_update |-> FALSE, first_l2_block_num |-> 0, epoch_num |-> 0,
     epoch_hash |-> 0, blocks |-> <<>>, rlp_ok |-> FALSE]

\* the batch list that extends the epoch with one block of one transaction
PlainList(f) ==
    [is_epoch_update |-> FALSE, first_l2_block_num |-> f, epoch_num |-> 0,
     epoch_hash |-> 0, blocks |-> << <<PlainTx>> >>, rlp_ok |-> TRUE]

AppendTxBatch(version, lists) ==
    [kind |-> "appendTxBatch", abi_ok |-> TRUE, version |-> version, tx_batch |-> lists]

\* calldata that is too short, another call, an appendTxBatch call that does
\* not decode
ShortCall == [kind |-> "short"]
OtherCall == [kind |-> "other"]
BadAbiCall == [kind |-> "appendTxBatch", abi_ok |-> FALSE]

\* the batcher transactions of one L1 block, as the chain watcher sends them
MessageTxs ==
    {<<AppendTxBatch(0, <<bl>>)>> : bl \in BatchLists}
    \cup {<<AppendTxBatch(1, <<PlainList(1)>>)>>,
          <<AppendTxBatch(0, <<BadRlpList>>)>>,
          <<AppendTxBatch(0, <<PlainList(1), BadRlpList>>)>>,
          <<AppendTxBatch(0, <<PlainList(0), BadRlpList>>)>>,
          <<AppendTxBatch(0, <<PlainList(2), PlainList(1)>>)>>,
          <<AppendTxBatch(0, <<PlainList(1), PlainList(1)>>)>>,
          <<AppendTxBatch(0, <<PlainList(0), PlainList(1)>>)>>,
          <<AppendTxBatch(0, <<>>)>>,
          <<OtherCall>>,
          <<ShortCall, BadAbiCall>>,
          <<OtherCall, BadAbiCall, AppendTxBatch(0, <<PlainList(1)>>)>>,
          <<AppendTxBatch(1, <<PlainList(1)>>), AppendTxBatch(0, <<PlainList(1)>>)>>,
          <<AppendTxBatch(0, <<PlainList(2)>>), AppendTxBatch(0, <<PlainList(1)>>)>>}

\* the stage has not panicked
Alive == pull.origin # "panic"

\* the chain watcher sends the batcher transactions of the newest L1 block
SendBatcherTxs(data, l1_origin) ==
    /\ Alive
    /\ channel = <<>>
    /\ txs = <<>>
    /\ l1_origin = st.current_epoch_num
    /\ \E v \in InclusionValues(l1_origin) :
          channel' = <<[txs |-> data, l1_origin |-> l1_origin, l1_inclusion_block |-> v]>>
    /\ pull' = NoPull
    /\ UNCHANGED <<driver, st, txs, batches, att, hist>>

\* try_next, the loop and what follows it, on the buffered batches m that
\* the inserts of the batches decoded made of the buffer before
Derive(m, before, decoded) ==
    LET r == derive_loop(m, st)
    IN  /\ batches' = r.rest
        /\ pull' = [origin |-> "pull", before |-> before, decoded |-> decoded,
                    buffered |-> m, accepted |-> r.batch,
                    out |-> IF r.batch = NoBatch THEN empty_batch(st)
                            ELSE into_batch(r.batch)]

\* SpecularBatches::next: the upstream next (drain the channel, pop the front
\* of the queue), decode_batches, the inserts, the loop, the empty batch
Pull(overflow_checks) ==
    /\ Alive
    /\ LET queue == process_incoming(channel, txs)
       IN  /\ channel' = <<>>
           /\ IF queue = <<>>
              THEN /\ txs' = <<>>
                   /\ Derive(batches, batches, <<>>)
              ELSE LET dec == decode_batches(Head(queue), st, overflow_checks)
                   IN  /\ txs' = Tail(queue)
                       /\ IF dec.status = "ok"
                          THEN Derive(insert_all(batches, dec.batches), batches, dec.batches)
                          ELSE /\ batches' = batches
                               /\ pull' = [origin |-> dec.status, buffered |-> batches,
                                           accepted |-> NoBatch, out |-> NoBatch]
    /\ UNCHANGED <<driver, st>>

\* mutant: the purge stops at the stage's own buffer
BatchesPurge_notUpstream ==
    /\ Alive
    /\ batches' = EmptyMap
    /\ pull' = [origin |-> "purge"]
    /\ UNCHANGED <<driver, st, channel, txs>>

\* SpecularBatches::purge, with SpecularBatcherTransactions::purge
BatchesPurge ==
    /\ Alive
    /\ channel' = <<>>
    /\ txs' = <<>>
    /\ batches' = EmptyMap
    /\ pull' = [origin |-> "purge"]
    /\ UNCHANGED <<driver, st>>

NextBatches ==
    \/ \E data \in MessageTxs : SendBatcherTxs(data, st.current_epoch_num)
    \/ \E overflow_checks \in BOOLEAN : Pull(overflow_checks) /\ UNCHANGED <<att, hist>>
    \/ BatchesPurge /\ UNCHANGED <<att, hist>>
    \/ \E n \in 1..MaxL1 :
          /\ Alive
          /\ StatePutL1Block(n)
          /\ pull' = NoPull
          /\ UNCHANGED <<driver, channel, txs, batches, att, hist>>
    \/ \E e \in 1..MaxL1 :
          /\ Alive
          /\ StateUpdateSafeHead(e)
          /\ pull' = NoPull
          /\ UNCHANGED <<driver, channel, txs, batches, att, hist>>

SpecBatches == Init /\ [][NextBatches]_vars

\* the oracle-update check of an epoch-update batch against the L1 info
\* indexed by its epoch_num
OracleUpdateChecks(b, s) ==
    /\ b.transactions # <<>>
    /\ b.transactions[1].kind = "tx"
    /\ b.transactions[1].to = L1Oracle
    /\ b.transactions[1].selector_ok
    /\ b.transactions[1].epoch_num = b.epoch_num
    /\ b.transactions[1].epoch_hash = b.epoch_hash
    /\ b.epoch_num \in s.l1
    /\ b.transactions[1].epoch_hash = L1Info(b.epoch_num).hash
    /\ b.transactions[1].timestamp = L1Info(b.epoch_num).timestamp
    /\ b.transactions[1].base_fee = L1Info(b.epoch_num).base_fee
    /\ b.transactions[1].state_root = L1Info(b.epoch_num).state_root

\* the acceptance conditions as stated
Acceptable(b, s) ==
    /\ b.timestamp = s.safe_head.timestamp + Blocktime
    /\ b.l2_block_number = s.safe_head.number + 1
    /\ b.epoch_num + SeqWindowSize >= b.l1_inclusion_block
    /\ \A i \in 1..Len(b.transactions) : b.transactions[i] # EmptyTx
    /\ b.is_epoch_update => OracleUpdateChecks(b, s)

\* the buffered timestamps that a pull reaches as the earliest one
Examined(B, s) ==
    {k \in DOMAIN B : \A j \in DOMAIN B : j < k => ~Acceptable(B[j], s)}

\* what the loop of a pull leaves behind: every batch reached as the
\* earliest one is removed, and returned exactly when it is acceptable; the
\* batches after the returned one stay buffered
AcceptedIffAcceptable ==
    /\ \A k \in Examined(pull.buffered, st) :
          /\ k \notin DOMAIN batches
          /\ IF Acceptable(pull.buffered[k], st)
             THEN /\ pull.accepted = pull.buffered[k]
                  /\ pull.out.timestamp = k
                  /\ pull.out.epoch_num = pull.buffered[k].epoch_num
                  /\ pull.out.epoch_hash = pull.buffered[k].epoch_hash
                  /\ pull.out.transactions = pull.buffered[k].transactions
                  /\ pull.out.l1_inclusion_block = pull.buffered[k].l1_inclusion_block
             ELSE pull.accepted # pull.buffered[k]
    /\ \A k \in DOMAIN pull.buffered \ Examined(pull.buffered, st) :
          k \in DOMAIN batches /\ batches[k] = pull.buffered[k]
    /\ (\A k \in DOMAIN pull.buffered : ~Acceptable(pull.buffered[k], st)) =>
          pull.accepted = NoBatch

\* the last operation of the stage was a pull, however it ended
Pulled == pull.origin \in {"pull", "err", "panic"}

\* C1 as stated: on each pull, the earliest-timestamp buffered batch is removed
\* and returned exactly when it meets the acceptance conditions against the
\* State, and dropped in every other case
C1_AcceptOnEveryPull == Pulled => AcceptedIffAcceptable

\* C1: on each pull whose batcher transaction (if there is one) decodes, the
\* earliest-timestamp buffered batch is removed and returned exactly when it
\* meets the acceptance conditions against the State, and removed without
\* being returned in every other case
C1_AcceptIffConditions == pull.origin = "pull" => AcceptedIffAcceptable

\* C1 happens: a batch included exactly at the end of its sequencing window
\* is accepted after an earlier buffered batch was dropped
C1_Witness ==
    /\ pull.origin = "pull"
    /\ pull.accepted # NoBatch
    /\ pull.accepted.epoch_num + SeqWindowSize = pull.accepted.l1_inclusion_block
    /\ \E k \in DOMAIN pull.buffered : k < pull.accepted.timestamp


\* C11 as stated: on every pull that accepts no buffered batch, an empty
\* batch is generated exactly when current_epoch_num > safe_epoch.number +
\* seq_window_size and the L1 block numbered safe_epoch.number + 1 is known
C11_EmptyBatchOnEveryPull ==
    (Pulled /\ pull.accepted = NoBatch) =>
        (pull.out # NoBatch <=>
            /\ st.current_epoch_num > st.safe_epoch.number + SeqWindowSize
            /\ (st.safe_epoch.number + 1) \in st.l1)

\* C11: on a pull whose batcher transaction (if there is one) decodes and that
\* accepts no buffered batch, an empty batch is generated
\* exactly when current_epoch_num > safe_epoch.number + seq_window_size and the
\* L1 block numbered safe_epoch.number + 1 is known in the State
C11_EmptyBatchIffWindowPassed ==
    (pull.origin = "pull" /\ pull.accepted = NoBatch) =>
        (pull.out # NoBatch <=>
            /\ st.current_epoch_num > st.safe_epoch.number + SeqWindowSize
            /\ (st.safe_epoch.number + 1) \in st.l1)

\* C11 happens: a pull accepts nothing while the newest L1 block is exactly at
\* the end of the window and the next epoch is known; nothing is generated
C11_Witness ==
    /\ pull.origin = "pull"
    /\ pull.accepted = NoBatch
    /\ pull.buffered # EmptyMap
    /\ st.current_epoch_num = st.safe_epoch.number + SeqWindowSize
    /\ (st.safe_epoch.number + 1) \in st.l1
    /\ pull.out = NoBatch

\* C12: every generated empty batch has the next L2 timestamp, no
\* transactions, the newest L1 number as inclusion block, and the safe epoch
\* when that timestamp is strictly below the next epoch's, else the next epoch
C12_EmptyBatchContents ==
    (pull.origin = "pull" /\ pull.accepted = NoBatch /\ pull.out # NoBatch) =>
        /\ pull.out.timestamp = st.safe_head.timestamp + Blocktime
        /\ pull.out.transactions = <<>>
        /\ pull.out.l1_inclusion_block = st.current_epoch_num
        /\ IF pull.out.timestamp < L1Info(st.safe_epoch.number + 1).timestamp
           THEN /\ pull.out.epoch_num = st.safe_epoch.number
                /\ pull.out.epoch_hash = st.safe_epoch.hash
           ELSE /\ pull.out.epoch_num = st.safe_epoch.number + 1
                /\ pull.out.epoch_hash = L1Info(st.safe_epoch.number + 1).hash

\* C12 happens: an empty batch is generated whose timestamp equals the next
\* epoch's timestamp, and it carries the next epoch
C12_Witness ==
    /\ pull.origin = "pull"
    /\ pull.accepted = NoBatch
    /\ pull.out # NoBatch
    /\ pull.out.timestamp = L1Info(st.safe_epoch.number + 1).timestamp
    /\ pull.out.epoch_num = st.safe_epoch.number + 1

\* C24: every batch the Batches stage emits, accepted or generated empty,
\* has an l1_inclusion_block that is the number of an L1 block known to State
\* when it is emitted
C24_InclusionBlockKnown ==
    (pull.origin = "pull" /\ pull.out # NoBatch)
    => pull.out.l1_inclusion_block \in st.l1

\* a batcher transaction with an unsupported version or a batch list that
\* does not decode
IngestFails(batcher_tx) ==
    \/ batcher_tx.version # 0
    \/ \E i \in 1..Len(batcher_tx.tx_batch) : ~batcher_tx.tx_batch[i].rlp_ok

\* C29: a pull whose batcher transaction has a non-zero version or a batch
\* list with an RLP error puts no batch of it into the buffer, keeps every
\* buffered batch, returns nothing, and leaves the stage able to pull again
\* with the failed transaction consumed
C29_FailedIngestKeepsBuffer ==
    [][LET queue == process_incoming(channel, txs)
       IN  (/\ pull'.origin \in {"pull", "err"}
            /\ queue # <<>>
            /\ IngestFails(Head(queue)))
           => /\ pull'.origin = "err"
              /\ pull'.out = NoBatch
              /\ batches' = batches
              /\ txs' = Tail(queue)
              /\ channel' = <<>>]_vars

\* C29 happens: an ingestion failed while a batch was buffered and another
\* batcher transaction was waiting
C29_Witness ==
    /\ pull.origin = "err"
    /\ batches # EmptyMap
    /\ batches = pull.buffered
    /\ txs # <<>>

\* C30: a pull that got past ingestion has removed every batch it inspected:
\* without an accepted batch the buffer is empty, with one the buffer holds
\* exactly the batches later than it; a batch later than the next L2
\* timestamp is removed like any other that is not accepted
C30_InspectedBatchesRemoved ==
    pull.origin = "pull" =>
        IF pull.accepted = NoBatch
        THEN batches = EmptyMap
        ELSE /\ DOMAIN batches =
                  {k \in DOMAIN pull.buffered : k > pull.accepted.timestamp}
             /\ \A k \in DOMAIN batches : batches[k] = pull.buffered[k]

\* C30 happens: a pull inspected a batch later than the next L2 timestamp,
\* accepted nothing and left the buffer empty
C30_Witness ==
    /\ pull.origin = "pull"
    /\ pull.accepted = NoBatch
    /\ \E k \in DOMAIN pull.buffered : k > st.safe_head.timestamp + Blocktime
    /\ batches = EmptyMap

\* the last of the decoded batches with timestamp k
LastDecoded(decoded, k) ==
    decoded[CHOOSE i \in 1..Len(decoded) :
                /\ decoded[i].timestamp = k
                /\ \A j \in (i + 1)..Len(decoded) : decoded[j].timestamp # k]

\* C31 as stated: the inserts of a pull leave every batch that was buffered
\* in the buffer unchanged, and every batch decoded is in the buffer
C31_InsertKeepsEveryBatch ==
    pull.origin = "pull" =>
        /\ \A k \in DOMAIN pull.before :
              k \in DOMAIN pull.buffered /\ pull.buffered[k] = pull.before[k]
        /\ \A i \in 1..Len(pull.decoded) :
              pull.buffered[pull.decoded[i].timestamp] = pull.decoded[i]

\* C31: the inserts of a pull keep every buffered batch whose timestamp no
\* decoded batch has, and put the last decoded batch of each timestamp in
\* place of whatever was buffered or decoded earlier for that timestamp
C31_InsertReplacesSameTimestamp ==
    pull.origin = "pull" =>
        /\ DOMAIN pull.buffered =
              DOMAIN pull.before
                \cup {pull.decoded[i].timestamp : i \in 1..Len(pull.decoded)}
        /\ \A k \in DOMAIN pull.buffered :
              pull.buffered[k] =
                 IF \E i \in 1..Len(pull.decoded) : pull.decoded[i].timestamp = k
                 THEN LastDecoded(pull.decoded, k)
                 ELSE pull.before[k]

\* C31 happens: a pull inserted a batch at the timestamp of a different
\* batch that was buffered
C31_Witness ==
    /\ pull.origin = "pull"
    /\ \E k \in DOMAIN pull.before :
          /\ \E i \in 1..Len(pull.decoded) : pull.decoded[i].timestamp = k
          /\ pull.buffered[k] # pull.before[k]

\* the batcher transaction holds a batch that the stage would accept on the
\* current safe head
HoldsAcceptable(batcher_tx, s) ==
    LET dec == decode_batches(batcher_tx, s, FALSE)
    IN  /\ dec.status = "ok"
        /\ \E i \in 1..Len(dec.batches) : batch_status(dec.batches[i], s) = "Accept"

\* C33: when a pull generates an empty batch, no batcher transaction that is
\* waiting in the queue holds a batch the stage would accept for the same
\* timestamp
C33_NoEmptyBatchBeforeQueued ==
    (pull.origin = "pull" /\ pull.accepted = NoBatch /\ pull.out # NoBatch) =>
        \A i \in 1..Len(txs) : ~HoldsAcceptable(txs[i], st)

\* C40: no pull ends in an arithmetic panic of decode_batches_v0: the
\* subtraction first_l2_block_num - safe_head.number stays in the unsigned
\* range for every first_l2_block_num
C40_DecodeStaysInRange == pull.origin # "panic"


----------------------------------------------------------------------------
(* Successive emissions of the Batches stage *)

\* nothing emitted since construction or the last purge
NoEmit ==
    [n |-> 0, ts |-> 0, head |-> 0, epoch_num |-> 0,
     prev_ts |-> 0, prev_head |-> 0, prev_epoch_num |-> 0]

\* the epoch-update list for L1 block e that starts at the first L2 block;
\* the model follows it with a list that extends the epoch
UpdateThenExtend(e) ==
    [is_epoch_update |-> TRUE, first_l2_block_num |-> 1, epoch_num |-> e,
     epoch_hash |-> L1Info(e).hash, blocks |-> << <<OracleTx(e)>> >>, rlp_ok |-> TRUE]

\* batcher transactions that lead to accepted batches at several positions
EmitTxs ==
    {<<AppendTxBatch(0, <<bl>>)>> : bl \in TwoBlockLists \cup {PlainList(f) : f \in 0..MaxFirst}}
    \cup {<<AppendTxBatch(1, <<PlainList(1)>>)>>}
    \cup {<<AppendTxBatch(0, <<UpdateThenExtend(e), PlainList(2)>>)>> : e \in 1..MaxL1}

\* the emission of a pull, remembered next to the one before it: its
\* timestamp and epoch number, and the safe head's timestamp it was derived
\* against
Emission ==
    IF pull'.origin = "pull" /\ pull'.out # NoBatch
    THEN [n |-> IF hist.n = 0 THEN 1 ELSE 2,
          ts |-> pull'.out.timestamp, head |-> st.safe_head.timestamp,
          epoch_num |-> pull'.out.epoch_num,
          prev_ts |-> hist.ts, prev_head |-> hist.head,
          prev_epoch_num |-> hist.epoch_num]
    ELSE hist

InitEmit ==
    /\ InitDriver
    /\ det = NoDet
    /\ sequencer = NoSequencer
    /\ st = InitState
    /\ channel = <<>>
    /\ txs = <<>>
    /\ batches = EmptyMap
    /\ pull = NoPull
    /\ att = attributes_new(InitState, 0)
    /\ hist = NoEmit

NextEmit ==
    \/ \E data \in EmitTxs : SendBatcherTxs(data, st.current_epoch_num)
    \/ \E overflow_checks \in BOOLEAN : Pull(overflow_checks) /\ att' = att /\ hist' = Emission
    \/ BatchesPurge /\ att' = att /\ hist' = NoEmit
    \/ \E n \in 1..MaxL1 :
          /\ Alive
          /\ StatePutL1Block(n)
          /\ pull' = NoPull
          /\ UNCHANGED <<driver, channel, txs, batches, att, hist>>
    \/ \E e \in 1..MaxL1 :
          /\ Alive
          /\ StateUpdateSafeHead(e)
          /\ pull' = NoPull
          /\ UNCHANGED <<driver, channel, txs, batches, att, hist>>

SpecEmit == InitEmit /\ [][NextEmit]_vars

\* C13 as stated: with no purge in between, each emitted batch has a strictly
\* greater timestamp than the batch emitted before it
C13_TimestampsStrictlyIncrease == hist.n = 2 => hist.ts > hist.prev_ts

\* C13: with no purge in between, an emitted batch has a strictly greater
\* timestamp than the batch emitted before it exactly when the State's safe
\* head advanced between the two pulls, and the same timestamp when it did not
C13_TimestampsFollowSafeHead ==
    hist.n = 2 =>
        /\ hist.ts > hist.prev_ts <=> hist.head > hist.prev_head
        /\ hist.head = hist.prev_head => hist.ts = hist.prev_ts

\* C13 happens: two batches are emitted around an advance of the safe head
C13_Witness ==
    /\ hist.n = 2
    /\ hist.head > hist.prev_head
    /\ hist.ts > hist.prev_ts

\* C32: with no purge in between, the epoch_num of an emitted batch is not
\* below the epoch_num of the batch emitted before it
C32_EpochNumNeverDecreases == hist.n = 2 => hist.epoch_num >= hist.prev_epoch_num


----------------------------------------------------------------------------
(* The composed pipeline: Attributes over Batches over BatcherTransactions *)

\* an epoch-update list of two blocks that starts at L2 block f and names
\* for L1 block e a hash no L1 block has
StaleUpdateList(f, e) ==
    [is_epoch_update |-> TRUE, first_l2_block_num |-> f, epoch_num |-> e,
     epoch_hash |-> 0, blocks |-> << <<OracleTx(e)>>, <<PlainTx>> >>, rlp_ok |-> TRUE]

\* batcher transactions of the composed pipeline: plain and epoch-update
\* lists at several positions, and one that does not decode
PipeTxs ==
    EmitTxs
    \cup {<<AppendTxBatch(0, <<[is_epoch_update |-> TRUE, first_l2_block_num |-> f,
                               epoch_num |-> e, epoch_hash |-> L1Info(e).hash,
                               blocks |-> << <<OracleTx(e)>> >>, rlp_ok |-> TRUE]>>)>> :
             f \in 1..MaxFirst, e \in 1..MaxL1}
    \cup {<<AppendTxBatch(0, <<StaleUpdateList(f, e)>>)>> : f \in 0..MaxBlock, e \in 1..MaxL1}

\* nothing emitted, nothing discarded
NoTrace == [last |-> NoAttrs, discarded |-> <<0, 0, 0>>]

\* Attributes::next over the Batches stage: the pull, then derive_attributes
\* on the batch it returns
PipelineNext(overflow_checks) ==
    /\ ~att.panicked
    /\ att.sequence_number < MaxSeq
    /\ Pull(overflow_checks)
    /\ IF pull'.origin = "pull" /\ pull'.out # NoBatch
       THEN LET a == update_sequence_number(att, pull'.out.epoch_hash)
                l1_info == l1_info_by_hash(st, pull'.out.epoch_hash)
            IN  IF l1_info = NoInfo
                THEN /\ att' = [a EXCEPT !.panicked = TRUE]
                     /\ hist' = NoTrace
                ELSE /\ att' = a
                     /\ hist' = [last |-> payload_attributes(a, pull'.out, l1_info),
                                 discarded |-> <<0, 0, 0>>]
       ELSE /\ att' = att
            /\ hist' = NoTrace

\* Attributes::purge over the Batches stage; the trace keeps how much each
\* buffer held when it was discarded
PipelinePurge ==
    /\ ~att.panicked
    /\ BatchesPurge
    /\ att' = [att EXCEPT !.sequence_number = 0, !.epoch_hash = st.safe_epoch.hash]
    /\ hist' = [last |-> NoAttrs,
                discarded |-> <<Len(channel), Len(txs), Cardinality(DOMAIN batches)>>]

InitPipe ==
    /\ InitDriver
    /\ det = NoDet
    /\ sequencer = NoSequencer
    /\ st = InitState
    /\ channel = <<>>
    /\ txs = <<>>
    /\ batches = EmptyMap
    /\ pull = NoPull
    /\ att = attributes_new(InitState, 0)
    /\ hist = NoTrace

NextPipe ==
    \/ \E data \in PipeTxs :
          /\ ~att.panicked
          /\ SendBatcherTxs(data, st.current_epoch_num)
    \/ \E overflow_checks \in BOOLEAN : PipelineNext(overflow_checks)
    \/ PipelinePurge
    \/ \E n \in 1..MaxL1 :
          /\ Alive
          /\ ~att.panicked
          /\ StatePutL1Block(n)
          /\ pull' = NoPull
          /\ UNCHANGED <<driver, channel, txs, batches, att, hist>>
    \/ \E e \in 1..MaxL1 :
          /\ Alive
          /\ ~att.panicked
          /\ StateUpdateSafeHead(e)
          /\ pull' = NoPull
          /\ UNCHANGED <<driver, channel, txs, batches, att, hist>>

SpecPipe == InitPipe /\ [][NextPipe]_vars

\* C14: a purge of the composed pipeline leaves the channel, the queue of
\* batcher transactions and the batch map empty, and a pull that follows it
\* with no message in between finds nothing buffered and accepts no batch
C14_PurgeEmptiesEveryStage ==
    [][/\ pull'.origin = "purge" =>
             channel' = <<>> /\ txs' = <<>> /\ batches' = EmptyMap
       /\ (pull.origin = "purge" /\ pull'.origin \in {"pull", "err", "panic"}) =>
             pull'.buffered = EmptyMap /\ pull'.accepted = NoBatch]_vars

\* C14 happens: a purge discarded a sent message and a buffered batch
C14_Witness ==
    /\ pull.origin = "purge"
    /\ hist.discarded[1] > 0
    /\ hist.discarded[3] > 0
    /\ channel = <<>>
    /\ batches = EmptyMap

\* C25: every batch the Batches stage emits has an epoch_hash under which
\* State holds an L1 block when the Attributes stage processes it, so the
\* lookup by batch.epoch_hash never misses
C25_EpochHashKnown ==
    /\ ~att.panicked
    /\ (pull.origin = "pull" /\ pull.out # NoBatch)
           => l1_info_by_hash(st, pull.out.epoch_hash) # NoInfo

----------------------------------------------------------------------------
(* The sequencing policy: specular::sequencing::AttributesBuilder *)

MaxSeqDrift == 4          \* config.chain.max_seq_drift
MaxParentSteps == 3       \* L2 blocks the parent is ahead of its epoch's start
MaxL1Gap == 8             \* seconds between the parent epoch and the next one
BatchSender == "batch_sender"    \* config.system_config.batch_sender

\* AttributesBuilder::next_timestamp
next_timestamp(parent_block_timestamp) == parent_block_timestamp + Blocktime

\* AttributesBuilder::next_drift_bound
next_drift_bound(curr_origin) == curr_origin.timestamp + MaxSeqDrift

\* the drift bound is compared with >= : a block at the bound already fails
find_next_origin_driftAtBound(curr_l2_block, curr_l1_epoch, next_l1_epoch) ==
    LET next_l2_ts == next_timestamp(curr_l2_block.timestamp)
        is_drift_bound_exceeded == next_l2_ts >= next_drift_bound(curr_l1_epoch)
    IN  IF next_l1_epoch # NoInfo
        THEN IF next_l2_ts >= next_l1_epoch.timestamp
             THEN [ok |-> TRUE, origin |-> next_l1_epoch]
             ELSE [ok |-> TRUE, origin |-> curr_l1_epoch]
        ELSE IF is_drift_bound_exceeded
             THEN [ok |-> FALSE, origin |-> NoInfo]
             ELSE [ok |-> TRUE, origin |-> curr_l1_epoch]

\* the next epoch is taken only strictly after its timestamp
find_next_origin_lateNext(curr_l2_block, curr_l1_epoch, next_l1_epoch) ==
    LET next_l2_ts == next_timestamp(curr_l2_block.timestamp)
        is_drift_bound_exceeded == next_l2_ts > next_drift_bound(curr_l1_epoch)
    IN  IF next_l1_epoch # NoInfo
        THEN IF next_l2_ts > next_l1_epoch.timestamp
             THEN [ok |-> TRUE, origin |-> next_l1_epoch]
             ELSE [ok |-> TRUE, origin |-> curr_l1_epoch]
        ELSE IF is_drift_bound_exceeded
             THEN [ok |-> FALSE, origin |-> NoInfo]
             ELSE [ok |-> TRUE, origin |-> curr_l1_epoch]

\* AttributesBuilder::find_next_origin: the match on
\* (next_l1_epoch, is_drift_bound_exceeded), first arm first
find_next_origin(curr_l2_block, curr_l1_epoch, next_l1_epoch) ==
    LET next_l2_ts == next_timestamp(curr_l2_block.timestamp)
        is_drift_bound_exceeded == next_l2_ts > next_drift_bound(curr_l1_epoch)
    IN  IF next_l1_epoch # NoInfo
        THEN IF next_l2_ts >= next_l1_epoch.timestamp
             THEN [ok |-> TRUE, origin |-> next_l1_epoch]
             ELSE [ok |-> TRUE, origin |-> curr_l1_epoch]
        ELSE IF is_drift_bound_exceeded
             THEN [ok |-> FALSE, origin |-> NoInfo]
             ELSE [ok |-> TRUE, origin |-> curr_l1_epoch]

MaxSafeLag == 2           \* config.local_sequencer.max_safe_lag
MaxParentNumber == 3      \* L2 block numbers is_ready is asked about
MaxClockLead == 3         \* seconds the clock is ahead of the parent's timestamp

\* the lag test admits a parent exactly max_safe_lag ahead of the safe head
is_ready_atLag(parent_l2_block, safe_l2_head, now) ==
    /\ safe_l2_head.number + MaxSafeLag >= parent_l2_block.number
    /\ next_timestamp(parent_l2_block.timestamp) <= now

\* AttributesBuilder::is_ready, with unix_now() = now
is_ready(parent_l2_block, safe_l2_head, now) ==
    /\ safe_l2_head.number + MaxSafeLag > parent_l2_block.number
    /\ next_timestamp(parent_l2_block.timestamp) <= now

\* next_randao
next_randao(next_origin) == next_origin.mix_hash

\* create_epoch
create_epoch(info) ==
    [number |-> info.number, hash |-> info.hash, timestamp |-> info.timestamp]

\* create_l1_oracle_update_transaction: nothing within the same epoch, else
\* the signed setL1OracleValues call, which needs the provider to fill it
create_l1_oracle_update_transaction(parent_l1_epoch, origin, rpc_ok) ==
    IF parent_l1_epoch.number = origin.number
    THEN [ok |-> TRUE, txs |-> <<>>, some |-> FALSE]
    ELSE IF ~rpc_ok
    THEN [ok |-> FALSE, txs |-> <<>>, some |-> FALSE]
    ELSE [ok |-> TRUE, some |-> TRUE,
          txs |-> <<CallTx(L1Oracle, TRUE, origin.number, origin.timestamp,
                           origin.base_fee, origin.hash, origin.state_root)>>]

SequencerFailed(error) == [status |-> "err", error |-> error, attrs |-> NoAttrs]

\* SequencingPolicy::get_attributes of the AttributesBuilder
get_attributes(parent_l2_block, parent_l1_epoch, next_l1_epoch, client, rpc_ok) ==
    LET next_origin == find_next_origin(parent_l2_block, parent_l1_epoch, next_l1_epoch)
        timestamp == next_timestamp(parent_l2_block.timestamp)
        created == create_l1_oracle_update_transaction(parent_l1_epoch,
                                                       next_origin.origin, rpc_ok)
    IN  IF ~next_origin.ok
        THEN SequencerFailed("current origin drift bound exceeded.")
        ELSE IF ~client
        THEN SequencerFailed("client not initialized")
        ELSE IF ~created.ok
        THEN SequencerFailed("provider")
        ELSE [status |-> "ok", error |-> "none",
              attrs |-> [timestamp |-> timestamp,
                         prev_randao |-> next_randao(next_origin.origin),
                         suggested_fee_recipient |-> BatchSender,
                         transactions |-> created.txs,
                         has_transactions |-> created.some,
                         no_tx_pool |-> timestamp > MaxSeqDrift,
                         gas_limit |-> 9,
                         epoch |-> create_epoch(next_origin.origin),
                         l1_inclusion_block |-> "none",
                         seq_number |-> "none"]]

\* parent L2 blocks: k blocks after the start of the epoch of L1 block e
SequencerParents(e) ==
    {[number |-> k, hash |-> HashOf(k, 1),
      timestamp |-> L1Info(e).timestamp + k * Blocktime] : k \in 0..MaxParentSteps}

\* what is known of the L1 block after e: nothing, or a block some seconds later
SequencerNext(e) ==
    {NoInfo} \cup
    {[L1Info(e + 1) EXCEPT !.timestamp = L1Info(e).timestamp + gap] : gap \in 1..MaxL1Gap}

\* the calls of get_attributes under observation
SequencerCalls ==
    UNION {[status : {"called"},
            parent_l2_block : SequencerParents(e),
            parent_l1_epoch : {L1Info(e)},
            next_l1_epoch : SequencerNext(e),
            client : BOOLEAN,
            rpc_ok : BOOLEAN,
            result : {[status |-> "none", error |-> "none", attrs |-> NoAttrs]}]
           : e \in EpochNums}

\* the calls of is_ready under observation: parent and safe head of the
\* canonical chain, the clock at or after the parent's timestamp
ReadyCalls ==
    [status : {"asked"},
     parent_l2_block : {[number |-> n, hash |-> HashOf(n, 1), timestamp |-> TsOf(n)]
                          : n \in 0..MaxParentNumber},
     safe_l2_head : {[number |-> n, hash |-> HashOf(n, 1), timestamp |-> TsOf(n)]
                          : n \in 0..MaxParentNumber},
     lead : 0..MaxClockLead,
     ready : {FALSE}]

InitSequencer ==
    /\ InitDriver
    /\ det = NoDet
    /\ InitPipeline
    /\ sequencer \in SequencerCalls \cup ReadyCalls

\* get_attributes returns
GetAttributes ==
    /\ sequencer.status = "called"
    /\ sequencer' = [sequencer EXCEPT
         !.status = "returned",
         !.result = get_attributes(sequencer.parent_l2_block, sequencer.parent_l1_epoch,
                                   sequencer.next_l1_epoch, sequencer.client,
                                   sequencer.rpc_ok)]
    /\ UNCHANGED <<heads, lock, chain, task, pre, det, pipeline>>

\* is_ready returns, the clock read by unix_now() being lead seconds after
\* the parent's timestamp
IsReady ==
    /\ sequencer.status = "asked"
    /\ sequencer' = [sequencer EXCEPT
         !.status = "answered",
         !.ready = is_ready(sequencer.parent_l2_block, sequencer.safe_l2_head,
                            sequencer.parent_l2_block.timestamp + sequencer.lead)]
    /\ UNCHANGED <<heads, lock, chain, task, pre, det, pipeline>>

NextSequencer == GetAttributes \/ IsReady

SpecSequencer == InitSequencer /\ [][NextSequencer]_vars

\* the call under observation has returned
SequencerReturned == sequencer.status = "returned"

\* the timestamp of the next L2 block of the call under observation
SequencerNextTs == next_timestamp(sequencer.parent_l2_block.timestamp)

\* the drift bound of the parent epoch is exceeded by the next L2 block
SequencerDriftExceeded == SequencerNextTs > next_drift_bound(sequencer.parent_l1_epoch)

\* C18: when the next L2 timestamp exceeds the drift bound of the parent
\* epoch and the next L1 epoch is known, the returned attributes carry the
\* next L1 epoch as origin, whatever the next epoch's timestamp is
C18_NextOriginWhenDriftExceeded ==
    (/\ SequencerReturned
     /\ SequencerDriftExceeded
     /\ sequencer.next_l1_epoch # NoInfo
     /\ sequencer.result.status = "ok")
    => sequencer.result.attrs.epoch = create_epoch(sequencer.next_l1_epoch)

\* C19 as stated: with no next L1 epoch known, the call fails with the
\* drift-bound error when the bound is exceeded and succeeds with the parent
\* epoch as origin otherwise
C19_NoNextFailsOrSucceeds ==
    (SequencerReturned /\ sequencer.next_l1_epoch = NoInfo)
    => IF SequencerDriftExceeded
       THEN sequencer.result.error = "current origin drift bound exceeded."
       ELSE /\ sequencer.result.status = "ok"
            /\ sequencer.result.attrs.epoch = create_epoch(sequencer.parent_l1_epoch)

\* C19: with no next L1 epoch known, the call fails with the drift-bound error
\* exactly when the next L2 timestamp is strictly greater than the bound;
\* otherwise it never fails with that error, and with an initialised client
\* it succeeds with the parent epoch as origin and no oracle transaction,
\* while without a client it fails with "client not initialized"
C19_NoNextDriftErrorOrParent ==
    (SequencerReturned /\ sequencer.next_l1_epoch = NoInfo)
    => IF SequencerDriftExceeded
       THEN /\ sequencer.result.status = "err"
            /\ sequencer.result.error = "current origin drift bound exceeded."
       ELSE IF sequencer.client
       THEN /\ sequencer.result.status = "ok"
            /\ sequencer.result.attrs.epoch = create_epoch(sequencer.parent_l1_epoch)
            /\ ~sequencer.result.attrs.has_transactions
       ELSE /\ sequencer.result.status = "err"
            /\ sequencer.result.error = "client not initialized"

\* C19 happens: no next epoch, the next L2 timestamp is exactly the drift
\* bound, and the call succeeded with the parent epoch
C19_Witness ==
    /\ SequencerReturned
    /\ sequencer.next_l1_epoch = NoInfo
    /\ SequencerNextTs = next_drift_bound(sequencer.parent_l1_epoch)
    /\ sequencer.result.status = "ok"
    /\ sequencer.result.attrs.epoch = create_epoch(sequencer.parent_l1_epoch)

\* C20: when the drift bound is not exceeded the call does not fail with the
\* drift-bound error, and attributes it returns have as origin the next L1
\* epoch if it is known and the next L2 timestamp is at least its timestamp,
\* the parent epoch otherwise: epoch, prev_randao and timestamp follow it
C20_OriginWithinDriftBound ==
    (SequencerReturned /\ ~SequencerDriftExceeded)
    => /\ sequencer.result.error # "current origin drift bound exceeded."
       /\ sequencer.result.status = "ok" =>
            LET origin ==
                    IF /\ sequencer.next_l1_epoch # NoInfo
                       /\ SequencerNextTs >= sequencer.next_l1_epoch.timestamp
                    THEN sequencer.next_l1_epoch
                    ELSE sequencer.parent_l1_epoch
            IN  /\ sequencer.result.attrs.epoch = create_epoch(origin)
                /\ sequencer.result.attrs.prev_randao = origin.mix_hash
                /\ sequencer.result.attrs.timestamp = SequencerNextTs

\* C20 happens: within the drift bound, the next L2 timestamp equals the next
\* epoch's timestamp and the returned attributes carry the next epoch
C20_Witness ==
    /\ SequencerReturned
    /\ ~SequencerDriftExceeded
    /\ sequencer.next_l1_epoch # NoInfo
    /\ SequencerNextTs = sequencer.next_l1_epoch.timestamp
    /\ sequencer.result.status = "ok"
    /\ sequencer.result.attrs.epoch.number = sequencer.parent_l1_epoch.number + 1
    /\ sequencer.result.attrs.has_transactions

\* C39: attributes returned by get_attributes have a timestamp that is not
\* before the timestamp of their origin and not after the origin's drift bound
C39_TimestampWithinOriginDrift ==
    (SequencerReturned /\ sequencer.result.status = "ok")
    => /\ sequencer.result.attrs.epoch.timestamp <= sequencer.result.attrs.timestamp
       /\ sequencer.result.attrs.timestamp
            <= sequencer.result.attrs.epoch.timestamp + MaxSeqDrift

\* the clock of the is_ready call under observation
ReadyNow == sequencer.parent_l2_block.timestamp + sequencer.lead

\* the parent is max_safe_lag or more blocks ahead of the safe head
ReadyLagExceeded ==
    sequencer.parent_l2_block.number - sequencer.safe_l2_head.number >= MaxSafeLag

\* the next L2 block's timestamp is still in the future
ReadyInFuture == ReadyNow < sequencer.parent_l2_block.timestamp + Blocktime

\* C21: is_ready is true exactly when the parent is less than max_safe_lag
\* blocks ahead of the safe head and the next timestamp is not in the future:
\* of the four corners only "neither exceeded" is ready
C21_ReadyIffWithinLagAndNotFuture ==
    sequencer.status = "answered"
    => (sequencer.ready <=> (~ReadyLagExceeded /\ ~ReadyInFuture))

\* C21 happens: ready at both boundaries, the parent max_safe_lag - 1 ahead
\* and the next timestamp exactly now
C21_Witness ==
    /\ sequencer.status = "answered"
    /\ sequencer.ready
    /\ sequencer.parent_l2_block.number = sequencer.safe_l2_head.number + MaxSafeLag - 1
    /\ ReadyNow = sequencer.parent_l2_block.timestamp + Blocktime

----------------------------------------------------------------------------
(* The validator's policy: specular::sequencing::AttributesValidator *)

\* attributes.transactions as should_skip_attributes sees it: None, an empty
\* list, or a list whose first raw transaction is a call, does not decode,
\* creates a contract (to is None) or carries no gas price
ValidatorTxs == {"None", "empty", "call", "undecodable", "create", "no_gas_price"}

\* answers of the provider to eth_call: a result, a revert, a transport error
SimulationResults == {"ok", "revert", "transport"}

\* attributes.seq_number: None, or Some(0..MaxSeq)
ValidatorAttrs ==
    [has_seq_number : BOOLEAN, seq_number : 0..MaxSeq, transactions : ValidatorTxs]

\* AttributesValidator::update_epoch
update_epoch(skip, attributes) ==
    IF ~attributes.has_seq_number
    THEN [ok |-> FALSE, epoch_changed |-> FALSE, should_skip |-> skip]
    ELSE IF attributes.seq_number = 0
    THEN [ok |-> TRUE, epoch_changed |-> TRUE, should_skip |-> FALSE]
    ELSE [ok |-> TRUE, epoch_changed |-> FALSE, should_skip |-> skip]

ValidatorReturn(skip, result, simulated) ==
    [should_skip |-> skip, result |-> result, simulated |-> simulated]

\* the flag is reset on every call, not only on an epoch change
should_skip_attributes_resetsAlways(skip, attributes, res) ==
    LET e == update_epoch(FALSE, attributes)
    IN  IF ~e.ok THEN ValidatorReturn(skip, "err", FALSE)
        ELSE IF ~e.epoch_changed
        THEN ValidatorReturn(e.should_skip, IF e.should_skip THEN "true" ELSE "false", FALSE)
        ELSE IF attributes.transactions \in {"None", "empty"}
        THEN ValidatorReturn(e.should_skip, IF e.should_skip THEN "true" ELSE "false", FALSE)
        ELSE IF attributes.transactions = "undecodable"
        THEN ValidatorReturn(e.should_skip, "err", FALSE)
        ELSE IF attributes.transactions \in {"create", "no_gas_price"}
        THEN ValidatorReturn(e.should_skip, "panic", FALSE)
        ELSE ValidatorReturn(res # "ok", IF res # "ok" THEN "true" ELSE "false", TRUE)

\* only a revert of the simulation sets the flag, a transport error does not
should_skip_attributes_transportOk(skip, attributes, res) ==
    LET e == update_epoch(skip, attributes)
    IN  IF ~e.ok THEN ValidatorReturn(skip, "err", FALSE)
        ELSE IF ~e.epoch_changed
        THEN ValidatorReturn(e.should_skip, IF e.should_skip THEN "true" ELSE "false", FALSE)
        ELSE IF attributes.transactions \in {"None", "empty"}
        THEN ValidatorReturn(e.should_skip, IF e.should_skip THEN "true" ELSE "false", FALSE)
        ELSE IF attributes.transactions = "undecodable"
        THEN ValidatorReturn(e.should_skip, "err", FALSE)
        ELSE IF attributes.transactions \in {"create", "no_gas_price"}
        THEN ValidatorReturn(e.should_skip, "panic", FALSE)
        ELSE ValidatorReturn(res = "revert", IF res = "revert" THEN "true" ELSE "false", TRUE)

\* AttributesValidator::should_skip_attributes, res being the provider's
\* answer to the eth_call if one is issued: the new flag, what the call
\* returns (Ok(true), Ok(false), Err or a panic) and whether it simulated
should_skip_attributes(skip, attributes, res) ==
    LET e == update_epoch(skip, attributes)
    IN  IF ~e.ok THEN ValidatorReturn(skip, "err", FALSE)
        ELSE IF ~e.epoch_changed
        THEN ValidatorReturn(e.should_skip, IF e.should_skip THEN "true" ELSE "false", FALSE)
        ELSE IF attributes.transactions \in {"None", "empty"}
        THEN ValidatorReturn(e.should_skip, IF e.should_skip THEN "true" ELSE "false", FALSE)
        ELSE IF attributes.transactions = "undecodable"
        THEN ValidatorReturn(e.should_skip, "err", FALSE)
        ELSE IF attributes.transactions \in {"create", "no_gas_price"}
        THEN ValidatorReturn(e.should_skip, "panic", FALSE)
        ELSE ValidatorReturn(res # "ok", IF res # "ok" THEN "true" ELSE "false", TRUE)

NoValidatorCall ==
    [attributes |-> [has_seq_number |-> FALSE, seq_number |-> 0, transactions |-> "None"],
     before |-> FALSE, res |-> "ok", result |-> "none", simulated |-> FALSE]

\* AttributesValidator::new; epoch is the history of what the most recent
\* call with seq_number 0 returned
validator_new ==
    [status |-> "validator", should_skip |-> FALSE, last |-> NoValidatorCall,
     epoch |-> "none"]

InitValidator ==
    /\ InitDriver
    /\ det = NoDet
    /\ InitPipeline
    /\ sequencer = validator_new

\* one call of should_skip_attributes
ShouldSkipAttributes(attributes, res) ==
    /\ sequencer.status = "validator"
    /\ sequencer.last.result # "panic"
    /\ LET r == should_skip_attributes(sequencer.should_skip, attributes, res)
       IN  sequencer' = [sequencer EXCEPT
             !.should_skip = r.should_skip,
             !.last = [attributes |-> attributes, before |-> sequencer.should_skip,
                       res |-> res, result |-> r.result, simulated |-> r.simulated],
             !.epoch = IF attributes.has_seq_number /\ attributes.seq_number = 0
                       THEN r.result ELSE @]
    /\ UNCHANGED <<heads, lock, chain, task, pre, det, pipeline>>

NextValidator ==
    \E attributes \in ValidatorAttrs, res \in SimulationResults :
        ShouldSkipAttributes(attributes, res)

SpecValidator == InitValidator /\ [][NextValidator]_vars

\* C22: attributes with a non-zero seq_number get what the most recent
\* attributes with seq_number 0 got (false if there were none, or if that call
\* failed before simulating), and no simulation call is issued for them
C22_SkipStickyWithinEpoch ==
    (/\ sequencer.last.result # "none"
     /\ sequencer.last.attributes.has_seq_number
     /\ sequencer.last.attributes.seq_number # 0)
    => /\ sequencer.last.result = (IF sequencer.epoch = "true" THEN "true" ELSE "false")
       /\ ~sequencer.last.simulated

\* C22 happens: a later block of an epoch whose first block failed simulation
\* is skipped
C22_Witness ==
    /\ sequencer.last.attributes.has_seq_number
    /\ sequencer.last.attributes.seq_number > 1
    /\ sequencer.last.attributes.transactions = "call"
    /\ sequencer.last.res = "ok"
    /\ sequencer.epoch = "true"
    /\ sequencer.last.result = "true"

\* C23: for seq_number 0 the validator returns true exactly when there is a
\* first transaction and its simulation was issued and did not succeed, a
\* transport error included; with no transaction it returns false whatever
\* the flag was
C23_SkipIffSimulationFailed ==
    (/\ sequencer.last.result # "none"
     /\ sequencer.last.attributes.has_seq_number
     /\ sequencer.last.attributes.seq_number = 0)
    => /\ sequencer.last.result = "true" <=>
             /\ sequencer.last.attributes.transactions \notin {"None", "empty"}
             /\ sequencer.last.simulated
             /\ sequencer.last.res # "ok"
       /\ (sequencer.last.attributes.transactions = "call"
             /\ sequencer.last.res = "transport") => sequencer.last.result = "true"
       /\ sequencer.last.attributes.transactions \in {"None", "empty"}
             => sequencer.last.result = "false" /\ ~sequencer.should_skip

\* C23 happens: the flag was set, the epoch changed and the simulation hit a
\* transport error
C23_Witness ==
    /\ sequencer.last.before
    /\ sequencer.last.attributes.has_seq_number
    /\ sequencer.last.attributes.seq_number = 0
    /\ sequencer.last.attributes.transactions = "call"
    /\ sequencer.last.res = "transport"
    /\ sequencer.last.result = "true"

----------------------------------------------------------------------------
(* The BatcherTransactions stage on its own *)

MaxSent == 3           \* messages the chain watcher sends

\* the messages of the model: batcher transactions that decode, mixed with
\* calldata that does not
StageMessages ==
    {<<>>,
     <<AppendTxBatch(0, <<PlainList(1)>>)>>,
     <<AppendTxBatch(0, <<PlainList(1)>>), AppendTxBatch(1, <<PlainList(2)>>)>>,
     <<AppendTxBatch(1, <<PlainList(2)>>), AppendTxBatch(0, <<PlainList(1)>>)>>,
     <<ShortCall, AppendTxBatch(0, <<PlainList(2)>>)>>,
     <<AppendTxBatch(0, <<PlainList(0)>>), BadAbiCall>>,
     <<OtherCall>>,
     <<AppendTxBatch(0, <<PlainList(0)>>), OtherCall, AppendTxBatch(0, <<PlainList(2)>>)>>}

\* history of the stage: the messages sent and the transactions pulled since
\* construction or the last purge
NoTraffic == [sent |-> <<>>, pulled |-> <<>>]

InitBatcher ==
    /\ InitDriver
    /\ det = NoDet
    /\ sequencer = NoSequencer
    /\ st = InitState
    /\ channel = <<>>
    /\ txs = <<>>
    /\ batches = EmptyMap
    /\ pull = NoPull
    /\ att = attributes_new(InitState, 0)
    /\ hist = NoTraffic

\* the chain watcher sends the batcher transactions of the next L1 block
BatcherSend(data) ==
    /\ Len(hist.sent) < MaxSent
    /\ \E v \in InclusionValues(Len(hist.sent) + 1) :
          LET msg == [txs |-> data, l1_origin |-> Len(hist.sent) + 1,
                      l1_inclusion_block |-> v]
          IN  /\ channel' = Append(channel, msg)
              /\ hist' = [hist EXCEPT !.sent = Append(@, msg)]
    /\ UNCHANGED <<driver, st, txs, batches, pull, att>>

\* SpecularBatcherTransactions::next: drain the channel, pop the front
BatcherNext ==
    /\ LET queue == process_incoming(channel, txs)
       IN  /\ channel' = <<>>
           /\ IF queue = <<>>
              THEN txs' = <<>> /\ hist' = hist
              ELSE /\ txs' = Tail(queue)
                   /\ hist' = [hist EXCEPT !.pulled = Append(@, Head(queue))]
    /\ UNCHANGED <<driver, st, batches, pull, att>>

\* SpecularBatcherTransactions::purge
BatcherPurge ==
    /\ channel' = <<>>
    /\ txs' = <<>>
    /\ hist' = NoTraffic
    /\ UNCHANGED <<driver, st, batches, pull, att>>

NextBatcher ==
    \/ \E data \in StageMessages : BatcherSend(data)
    \/ BatcherNext
    \/ BatcherPurge

SpecBatcher == InitBatcher /\ [][NextBatcher]_vars

\* calldata is a batcher transaction: an appendTxBatch call that ABI-decodes
Decodes(data) == data.kind = "appendTxBatch" /\ data.abi_ok

RECURSIVE SentCalls(_)
\* the calldata of the messages msgs, in arrival order and list order
SentCalls(msgs) ==
    IF msgs = <<>> THEN <<>> ELSE Head(msgs).txs \o SentCalls(Tail(msgs))

\* version and tx_batch of what was pulled, and of what was sent and decodes
PulledCalls == [i \in 1..Len(hist.pulled) |->
                  [version |-> hist.pulled[i].version,
                   tx_batch |-> hist.pulled[i].tx_batch]]

ExpectedCalls ==
    LET ok == SelectSeq(SentCalls(hist.sent), Decodes)
    IN  [i \in 1..Len(ok) |-> [version |-> ok[i].version, tx_batch |-> ok[i].tx_batch]]

\* C26: the transactions pulled are, in order, the first of the calldata
\* sent that decodes, taken message by message in arrival order and entry by
\* entry in list order; nothing but the failed decodes is missing
C26_PulledInArrivalOrder ==
    /\ Len(PulledCalls) <= Len(ExpectedCalls)
    /\ PulledCalls = SubSeq(ExpectedCalls, 1, Len(PulledCalls))
    /\ Len(hist.pulled) + Len(process_incoming(channel, txs)) = Len(ExpectedCalls)

\* C26 happens: every transaction of three messages was pulled, across
\* entries that failed to decode
C26_Witness ==
    /\ Len(hist.sent) = MaxSent
    /\ Len(SentCalls(hist.sent)) > Len(ExpectedCalls)
    /\ Len(hist.pulled) >= 3
    /\ Len(hist.pulled) = Len(ExpectedCalls)
    /\ hist.pulled[1].l1_origin # hist.pulled[Len(hist.pulled)].l1_origin

\* C27: every batcher transaction pulled carries as its l1_inclusion_block
\* the l1_origin of the message it arrived in
C27_TaggedWithMessageOrigin ==
    \A i \in 1..Len(hist.pulled) :
        hist.pulled[i].l1_inclusion_block = hist.pulled[i].l1_origin

====
